---- MODULE Spec2Model ----
(***************************************************************************)
(* Text-to-structure parsers of api/main.py (fastapi-streamlit-resume).    *)
(*                                                                         *)
(* A Python str is a sequence of atoms.  An atom is one character, except  *)
(* "http://" and "https://", which stand for those character runs (no      *)
(* other atom of the alphabets below is a letter of them, so startswith    *)
(* on atoms agrees with startswith on characters), and "u2022", "u2013",   *)
(* which stand for the bullet characters U+2022 and U+2013.                *)
(* Python's None is the value None; a list is a sequence; a tuple is a     *)
(* tuple; a dict with fixed keys is a record.                              *)
(***************************************************************************)
EXTENDS Integers, Sequences, FiniteSets, TLC

VARIABLES
    fn,         \* the function being executed
    txt,        \* its argument
    pc,         \* "call" (entered), "loop" (inside the for loop), "done" (returned)
    rest,       \* the lines the for loop has not yet visited
    parts,      \* parse_csv_or_lines: parts
    blocks,     \* parse_projects_blocks: blocks
    cur_title,  \* parse_projects_blocks: cur_title
    cur_desc,   \* parse_projects_blocks: cur_desc
    cur_link,   \* parse_projects_blocks: cur_link
    sections,   \* parse_sections_text: sections
    title,      \* parse_sections_text: title
    lines,      \* parse_sections_text: lines
    cur,        \* parse_education_blocks: cur
    ret,        \* the value returned by a function without accumulators
    key,        \* extract_social_handle: key
    USE_LINKEDIN_REDIRECT,  \* pdf_utils configuration
    USE_MOBILE_LINKEDIN,    \* pdf_utils configuration
    photo_bytes,  \* build_resume_pdf: photo_bytes
    cursor,       \* build_resume_pdf: cursor (mm above the page bottom)
    gs,           \* the canvas c: its current graphics state
    stateStack,   \* the canvas c: the graphics states saved by saveState
    drawn,        \* the canvas c: what was drawn, where, under which graphics state
    exc,          \* build_resume_pdf: the statement whose exception the photo block caught
    todo,         \* build_resume_pdf: the statements still to execute
    heap,         \* the objects of the server process, by identity
    reqs,         \* the /generate-form requests in progress: their local variables
    fsInodes,     \* the file system: the content of each file, by inode
    fsDir,        \* the file system: the inode each path names (0: no such file)
    saves,        \* the persist_json_atomic calls in progress: their local variables
    pdf_bytes,    \* st.session_state.pdf_bytes
    pdf_filename, \* st.session_state.pdf_filename
    outputs,      \* the files of the outputs directory
    sidebar,      \* the message the Generate action showed in the sidebar
    resp,         \* the Generate action: resp
    clicks        \* the number of times Generate PDF was clicked

vars == <<fn, txt, pc, rest, parts, blocks, cur_title, cur_desc, cur_link,
          sections, title, lines, cur, ret,
          key, USE_LINKEDIN_REDIRECT, USE_MOBILE_LINKEDIN,
          photo_bytes, cursor, gs, stateStack, drawn, exc, todo, heap, reqs,
          fsInodes, fsDir, saves,
          pdf_bytes, pdf_filename, outputs, sidebar, resp, clicks>>

csvVars  == <<parts>>
projVars == <<blocks, cur_title, cur_desc, cur_link>>
secVars  == <<sections, title, lines>>
eduVars  == <<cur>>

\* the state of api/pdf_utils.py
socialVars == <<key, USE_LINKEDIN_REDIRECT, USE_MOBILE_LINKEDIN>>
photoVars  == <<photo_bytes, cursor, gs, stateStack, drawn, exc, todo>>
serverVars == <<heap, reqs>>
\* the state of frontend/app.py
persistVars  == <<fsInodes, fsDir, saves>>
generateVars == <<pdf_bytes, pdf_filename, outputs, sidebar, resp, clicks>>
frontVars    == <<persistVars, generateVars>>

pdfVars    == <<socialVars, photoVars, serverVars, frontVars>>

\* the variables of the code modelled further below
extVars == <<eduVars, ret, pdfVars>>

-----------------------------------------------------------------------------
(* Bounds of the model *)

\* longest argument of parse_csv_or_lines, in atoms
MaxCsvLen == 5
\* longest argument of parse_projects_blocks, in atoms
MaxProjLen == 5
\* most lines in a shaped argument of parse_projects_blocks
MaxProjLines == 4
\* most lines in an argument of parse_sections_text
MaxSecLines == 4
\* most lines in a bracket-and-bullet argument of parse_sections_text
MaxSecListLines == 5
\* longest argument of parse_education_blocks, in atoms
MaxEduLen == 6
\* longest text before the separator in an argument of normalize_language_level
MaxLangNameLen == 2

-----------------------------------------------------------------------------
(* Python str and list primitives *)

None == <<"None">>

\* bool(x) of a str, a list or None
Truthy(x) == x # None /\ x # <<>>

\* str.isspace of one character
IsSpace(c) == c \in {" ", "\n", "\r"}

\* the line boundaries of str.splitlines that the alphabets contain
IsLineBreak(c) == c \in {"\n", "\r"}

RECURSIVE LStrip(_)
LStrip(s) ==
    IF s # <<>> /\ IsSpace(Head(s)) THEN LStrip(Tail(s)) ELSE s

RECURSIVE RStrip(_)
RStrip(s) ==
    IF s # <<>> /\ IsSpace(s[Len(s)]) THEN RStrip(SubSeq(s, 1, Len(s) - 1)) ELSE s

\* str.strip()
Strip(s) == RStrip(LStrip(s))

\* str.startswith(p)
StartsWith(s, p) == Len(s) >= Len(p) /\ SubSeq(s, 1, Len(p)) = p

\* str.endswith(p)
EndsWith(s, p) == Len(s) >= Len(p) /\ SubSeq(s, Len(s) - Len(p) + 1, Len(s)) = p

\* str.replace(a, b) for single atoms a, b
Replace(s, a, b) == [i \in 1..Len(s) |-> IF s[i] = a THEN b ELSE s[i]]

\* str.splitlines(): the text between line boundaries, "\r\n" being one
\* boundary; no empty last line after a final boundary
RECURSIVE SplitLinesFrom(_, _, _)
SplitLinesFrom(s, i, acc) ==
    IF i > Len(s) THEN (IF acc = <<>> THEN <<>> ELSE <<acc>>)
    ELSE IF s[i] = "\r" /\ i < Len(s) /\ s[i + 1] = "\n"
         THEN <<acc>> \o SplitLinesFrom(s, i + 2, <<>>)
    ELSE IF IsLineBreak(s[i])
         THEN <<acc>> \o SplitLinesFrom(s, i + 1, <<>>)
    ELSE SplitLinesFrom(s, i + 1, Append(acc, s[i]))

SplitLines(s) == SplitLinesFrom(s, 1, <<>>)

\* sep.join(items) for a single atom sep
RECURSIVE Join(_, _)
Join(sep, items) ==
    IF items = <<>> THEN <<>>
    ELSE IF Len(items) = 1 THEN items[1]
    ELSE items[1] \o <<sep>> \o Join(sep, Tail(items))

\* all sequences over S of length at most n
SeqsUpTo(S, n) == UNION {[1..k -> S] : k \in 0..n}

-----------------------------------------------------------------------------
(* parse_csv_or_lines *)

CsvAlphabet == {"a", "b", " ", ",", "\n", "\r"}

CsvInputs == SeqsUpTo(CsvAlphabet, MaxCsvLen)

\* the loop body with its filter dropped
CsvStepKeepEmpty(ps, line) == Append(ps, Strip(line))

\* one iteration of the loop: s = line.strip(); if s: parts.append(s)
CsvStep(ps, line) ==
    LET s == Strip(line) IN IF Truthy(s) THEN Append(ps, s) ELSE ps

CsvCall ==
    /\ fn = "parse_csv_or_lines" /\ pc = "call"
    /\ IF ~Truthy(txt)
       THEN /\ pc' = "done"
            /\ UNCHANGED rest
       ELSE /\ pc' = "loop"
            /\ rest' = SplitLines(Replace(txt, ",", "\n"))
    /\ UNCHANGED <<extVars, fn, txt, csvVars, projVars, secVars>>

CsvLine ==
    /\ fn = "parse_csv_or_lines" /\ pc = "loop" /\ rest # <<>>
    /\ parts' = CsvStep(parts, Head(rest))
    /\ rest' = Tail(rest)
    /\ UNCHANGED <<extVars, fn, txt, pc, projVars, secVars>>

CsvReturn ==
    /\ fn = "parse_csv_or_lines" /\ pc = "loop" /\ rest = <<>>
    /\ pc' = "done"
    /\ UNCHANGED <<extVars, fn, txt, rest, csvVars, projVars, secVars>>

\* the module-level configuration of api/pdf_utils.py, as the source sets it
InitSocialVars ==
    /\ key = None
    /\ USE_LINKEDIN_REDIRECT = FALSE
    /\ USE_MOBILE_LINKEDIN = FALSE

\* the graphics state of a new canvas: no clipping path, default stroke
NewCanvasState == [clip |-> "page", stroke |-> "black", width |-> "default"]

InitPhotoVars ==
    /\ photo_bytes = None
    /\ cursor = 0
    /\ gs = NewCanvasState
    /\ stateStack = <<>>
    /\ drawn = <<>>
    /\ exc = None
    /\ todo = <<>>

\* the two requests the server handles
Requests == {"request 1", "request 2"}

InitServerVars ==
    /\ heap = <<>>
    /\ reqs = [r \in Requests |-> None]

\* frontend/app.py at the start of a session: no file, no call, and
\* st.session_state.pdf_bytes = None, pdf_filename = "resume.pdf"
InitFrontVars ==
    /\ fsInodes = <<>>
    /\ fsDir = [f \in {"path", "tmp"} |-> 0]
    /\ saves = <<>>
    /\ pdf_bytes = None
    /\ pdf_filename = <<"resume.pdf">>
    /\ outputs = <<>>
    /\ sidebar = None
    /\ resp = None
    /\ clicks = 0

InitPdf == InitSocialVars /\ InitPhotoVars /\ InitServerVars /\ InitFrontVars

InitParsers ==
    /\ pc = "call"
    /\ rest = <<>>
    /\ parts = <<>>
    /\ blocks = <<>> /\ cur_title = <<>> /\ cur_desc = <<>> /\ cur_link = None
    /\ sections = <<>> /\ title = None /\ lines = <<>>
    /\ cur = <<>>
    /\ ret = None

InitCommon == InitParsers /\ InitPdf

InitCsv == fn = "parse_csv_or_lines" /\ txt \in CsvInputs /\ InitCommon

NextCsv == CsvCall \/ CsvLine \/ CsvReturn

SpecCsv == InitCsv /\ [][NextCsv]_vars

-----------------------------------------------------------------------------
(* parse_projects_blocks *)

ProjAlphabet == {"a", "b", " ", "\n", "http://", "https://"}

ProjLineShapes ==
    { <<>>, <<" ">>, <<"a">>, <<" ", "b", " ", "a">>,
      <<"http://", "a">>, <<"https://">> }

\* every short text over the alphabet, and every text of a few shaped lines
ProjInputs ==
    SeqsUpTo(ProjAlphabet, MaxProjLen)
        \cup {Join("\n", ls) : ls \in SeqsUpTo(ProjLineShapes, MaxProjLines)}

\* the link test recognising http:// only
ProjIsLinkHttpOnly(line) == StartsWith(line, <<"http://">>)

\* line.startswith("http://") or line.startswith("https://")
ProjIsLink(line) ==
    StartsWith(line, <<"http://">>) \/ StartsWith(line, <<"https://">>)

\* the assignment keeping the first link of a block
ProjLinkKeepFirst(old, line) == IF old = None THEN line ELSE old

\* cur_link = line
ProjLinkAssign(old, line) == line

\* the flush test of the section parser: a title alone is not enough
ProjFlushCondNeedsBody(t, d, l) == Truthy(t) /\ (Truthy(d) \/ Truthy(l))

\* no flush test at all
ProjFlushCondAlways(t, d, l) == TRUE

\* if cur_title or cur_desc or cur_link
ProjFlushCond(t, d, l) == Truthy(t) \/ Truthy(d) \/ Truthy(l)

\* (cur_title.strip(), "\n".join(cur_desc).strip(), cur_link)
ProjRecord(t, d, l) == <<Strip(t), Strip(Join("\n", d)), l>>

\* flush(): blocks after the call
ProjFlush(bs, t, d, l) ==
    IF ProjFlushCond(t, d, l) THEN Append(bs, ProjRecord(t, d, l)) ELSE bs

ProjectsCall ==
    /\ fn = "parse_projects_blocks" /\ pc = "call"
    /\ pc' = "loop"
    /\ rest' = SplitLines(txt)
    /\ UNCHANGED <<extVars, fn, txt, csvVars, projVars, secVars>>

\* if not line: flush(); continue
ProjectsBlank ==
    /\ fn = "parse_projects_blocks" /\ pc = "loop" /\ rest # <<>>
    /\ ~Truthy(Strip(Head(rest)))
    /\ blocks' = ProjFlush(blocks, cur_title, cur_desc, cur_link)
    /\ cur_title' = <<>> /\ cur_desc' = <<>> /\ cur_link' = None
    /\ rest' = Tail(rest)
    /\ UNCHANGED <<extVars, fn, txt, pc, csvVars, secVars>>

\* if not cur_title: cur_title = line
ProjectsTitle ==
    /\ fn = "parse_projects_blocks" /\ pc = "loop" /\ rest # <<>>
    /\ LET line == Strip(Head(rest)) IN
         /\ Truthy(line)
         /\ ~Truthy(cur_title)
         /\ cur_title' = line
    /\ rest' = Tail(rest)
    /\ UNCHANGED <<extVars, fn, txt, pc, blocks, cur_desc, cur_link, csvVars, secVars>>

\* elif line.startswith("http://") or line.startswith("https://"): cur_link = line
ProjectsLink ==
    /\ fn = "parse_projects_blocks" /\ pc = "loop" /\ rest # <<>>
    /\ LET line == Strip(Head(rest)) IN
         /\ Truthy(line)
         /\ Truthy(cur_title)
         /\ ProjIsLink(line)
         /\ cur_link' = ProjLinkAssign(cur_link, line)
    /\ rest' = Tail(rest)
    /\ UNCHANGED <<extVars, fn, txt, pc, blocks, cur_title, cur_desc, csvVars, secVars>>

\* else: cur_desc.append(line)
ProjectsDesc ==
    /\ fn = "parse_projects_blocks" /\ pc = "loop" /\ rest # <<>>
    /\ LET line == Strip(Head(rest)) IN
         /\ Truthy(line)
         /\ Truthy(cur_title)
         /\ ~ProjIsLink(line)
         /\ cur_desc' = Append(cur_desc, line)
    /\ rest' = Tail(rest)
    /\ UNCHANGED <<extVars, fn, txt, pc, blocks, cur_title, cur_link, csvVars, secVars>>

\* flush(); return blocks
ProjectsReturn ==
    /\ fn = "parse_projects_blocks" /\ pc = "loop" /\ rest = <<>>
    /\ blocks' = ProjFlush(blocks, cur_title, cur_desc, cur_link)
    /\ cur_title' = <<>> /\ cur_desc' = <<>> /\ cur_link' = None
    /\ pc' = "done"
    /\ UNCHANGED <<extVars, fn, txt, rest, csvVars, secVars>>

InitProjects == fn = "parse_projects_blocks" /\ txt \in ProjInputs /\ InitCommon

NextProjects ==
    \/ ProjectsCall
    \/ ProjectsBlank
    \/ ProjectsTitle
    \/ ProjectsLink
    \/ ProjectsDesc
    \/ ProjectsReturn

SpecProjects == InitProjects /\ [][NextProjects]_vars

-----------------------------------------------------------------------------
(* parse_sections_text *)

SecLineShapes ==
    { <<>>,
      <<"[", "a", "]">>,
      <<"[", " ", "]">>,
      <<"-", " ", "a">>,
      <<"-">>,
      <<"u2022", "b", " ">>,
      <<" ", "u2013", "a">>,
      <<"b">> }

SecListLineShapes ==
    { <<>>,
      <<"[", "a", "]">>,
      <<" ", "[", " ", "b", "]">>,
      <<"-", " ", "a">>,
      <<"u2022", "b", " ">> }

\* every text of a few lines of any shape, and every longer text made of
\* bracket lines, bullet lines and blank lines
SecInputs ==
    {Join("\n", ls) : ls \in SeqsUpTo(SecLineShapes, MaxSecLines)}
        \cup {Join("\n", ls) : ls \in SeqsUpTo(SecListLineShapes, MaxSecListLines)}

\* s.startswith("[") and s.endswith("]")
SecIsBracket(s) == StartsWith(s, <<"[">>) /\ EndsWith(s, <<"]">>)

\* s[1:-1].strip()
SecBracketTitle(s) == Strip(SubSeq(s, 2, Len(s) - 1))

\* the bullet test recognising "-" only
SecIsBulletDashOnly(s) == SubSeq(s, 1, 1) = <<"-">>

\* s[:1] in "-•–", for a non-empty s
SecIsBullet(s) == SubSeq(s, 1, 1) \in {<<"-">>, <<"u2022">>, <<"u2013">>}

\* s[1:].strip()
SecBulletItem(s) == Strip(SubSeq(s, 2, Len(s)))

\* the else branch overwriting the title
SecContinueOverwrite(t, ls, s) ==
    IF Truthy(ls)
    THEN [title |-> t, lines |-> [ls EXCEPT ![Len(ls)] = @ \o <<" ">> \o s]]
    ELSE [title |-> s, lines |-> ls]

\* if lines: lines[-1] += " " + s  else: title = title or s
SecContinue(t, ls, s) ==
    IF Truthy(ls)
    THEN [title |-> t, lines |-> [ls EXCEPT ![Len(ls)] = @ \o <<" ">> \o s]]
    ELSE [title |-> IF Truthy(t) THEN t ELSE s, lines |-> ls]

\* the flush test with "or" for "and"
SecFlushCondEither(t, ls) == Truthy(t) \/ Truthy(ls)

\* if title and lines
SecFlushCond(t, ls) == Truthy(t) /\ Truthy(ls)

\* flush(): sections after the call
SecFlush(secs, t, ls) ==
    IF SecFlushCond(t, ls) THEN Append(secs, [title |-> t, lines |-> ls]) ELSE secs

SectionsCall ==
    /\ fn = "parse_sections_text" /\ pc = "call"
    /\ pc' = "loop"
    /\ rest' = SplitLines(txt)
    /\ UNCHANGED <<extVars, fn, txt, csvVars, projVars, secVars>>

\* if not s: flush(); continue
SectionsBlank ==
    /\ fn = "parse_sections_text" /\ pc = "loop" /\ rest # <<>>
    /\ ~Truthy(Strip(Head(rest)))
    /\ sections' = SecFlush(sections, title, lines)
    /\ title' = None /\ lines' = <<>>
    /\ rest' = Tail(rest)
    /\ UNCHANGED <<extVars, fn, txt, pc, csvVars, projVars>>

\* if s.startswith("[") and s.endswith("]"): flush(); title = s[1:-1].strip()
SectionsBracket ==
    /\ fn = "parse_sections_text" /\ pc = "loop" /\ rest # <<>>
    /\ LET s == Strip(Head(rest)) IN
         /\ Truthy(s)
         /\ SecIsBracket(s)
         /\ sections' = SecFlush(sections, title, lines)
         /\ title' = SecBracketTitle(s)
         /\ lines' = <<>>
    /\ rest' = Tail(rest)
    /\ UNCHANGED <<extVars, fn, txt, pc, csvVars, projVars>>

\* elif s[:1] in "-•–": lines.append(s[1:].strip())
SectionsBullet ==
    /\ fn = "parse_sections_text" /\ pc = "loop" /\ rest # <<>>
    /\ LET s == Strip(Head(rest)) IN
         /\ Truthy(s)
         /\ ~SecIsBracket(s)
         /\ SecIsBullet(s)
         /\ lines' = Append(lines, SecBulletItem(s))
    /\ rest' = Tail(rest)
    /\ UNCHANGED <<extVars, fn, txt, pc, sections, title, csvVars, projVars>>

\* else: continuation of the previous line
SectionsContinuation ==
    /\ fn = "parse_sections_text" /\ pc = "loop" /\ rest # <<>>
    /\ LET s == Strip(Head(rest)) IN
         /\ Truthy(s)
         /\ ~SecIsBracket(s)
         /\ ~SecIsBullet(s)
         /\ title' = SecContinue(title, lines, s).title
         /\ lines' = SecContinue(title, lines, s).lines
    /\ rest' = Tail(rest)
    /\ UNCHANGED <<extVars, fn, txt, pc, sections, csvVars, projVars>>

\* flush(); return sections
SectionsReturn ==
    /\ fn = "parse_sections_text" /\ pc = "loop" /\ rest = <<>>
    /\ sections' = SecFlush(sections, title, lines)
    /\ title' = None /\ lines' = <<>>
    /\ pc' = "done"
    /\ UNCHANGED <<extVars, fn, txt, rest, csvVars, projVars>>

InitSections == fn = "parse_sections_text" /\ txt \in SecInputs /\ InitCommon

NextSections ==
    \/ SectionsCall
    \/ SectionsBlank
    \/ SectionsBracket
    \/ SectionsBullet
    \/ SectionsContinuation
    \/ SectionsReturn

SpecSections == InitSections /\ [][NextSections]_vars

-----------------------------------------------------------------------------
(* parse_education_blocks *)

EduAlphabet == {"a", "b", " ", "\n"}

EduInputs == SeqsUpTo(EduAlphabet, MaxEduLen)

\* the line with both ends stripped
EduLineTextStripped(raw) == Strip(raw)

\* ln = raw.rstrip()
EduLineText(raw) == RStrip(raw)

\* if cur: blocks.append("\n".join(cur))
EduFlush(bs, c) == IF Truthy(c) THEN Append(bs, Join("\n", c)) ELSE bs

EducationCall ==
    /\ fn = "parse_education_blocks" /\ pc = "call"
    /\ pc' = "loop"
    /\ rest' = SplitLines(txt)
    /\ UNCHANGED <<pdfVars, ret, fn, txt, parts, blocks, cur_title, cur_desc, cur_link,
                   secVars, eduVars>>

\* if not ln.strip(): if cur: blocks.append("\n".join(cur)); cur = []
EducationBlank ==
    /\ fn = "parse_education_blocks" /\ pc = "loop" /\ rest # <<>>
    /\ ~Truthy(Strip(EduLineText(Head(rest))))
    /\ blocks' = EduFlush(blocks, cur)
    /\ cur' = <<>>
    /\ rest' = Tail(rest)
    /\ UNCHANGED <<pdfVars, ret, fn, txt, pc, parts, cur_title, cur_desc, cur_link, secVars>>

\* else: cur.append(ln)
EducationLine ==
    /\ fn = "parse_education_blocks" /\ pc = "loop" /\ rest # <<>>
    /\ Truthy(Strip(EduLineText(Head(rest))))
    /\ cur' = Append(cur, EduLineText(Head(rest)))
    /\ rest' = Tail(rest)
    /\ UNCHANGED <<pdfVars, ret, fn, txt, pc, parts, blocks, cur_title, cur_desc, cur_link,
                   secVars>>

\* if cur: blocks.append("\n".join(cur)); return blocks
EducationReturn ==
    /\ fn = "parse_education_blocks" /\ pc = "loop" /\ rest = <<>>
    /\ blocks' = EduFlush(blocks, cur)
    /\ pc' = "done"
    /\ UNCHANGED <<pdfVars, ret, fn, txt, rest, parts, cur_title, cur_desc, cur_link,
                   secVars, eduVars>>

InitEducation == fn = "parse_education_blocks" /\ txt \in EduInputs /\ InitCommon

NextEducation ==
    \/ EducationCall
    \/ EducationBlank
    \/ EducationLine
    \/ EducationReturn

SpecEducation == InitEducation /\ [][NextEducation]_vars

-----------------------------------------------------------------------------
(* normalize_language_level *)

\* Atoms: "E", "x", "d" are letters outside [abc]; "3" is a digit outside
\* [12]; ".", "/" are neither word characters nor separators.  The labels of
\* the mapping are atoms of their own.

LangNames == SeqsUpTo({"E", " ", "-", "\n"}, MaxLangNameLen)

LangTails == { <<>>, <<"x">>, <<".">>, <<" ", "x">>, <<"-", "c", "1">> }

\* texts  name, blanks, separator, blanks, letter, digit, tail  (a "/" in the
\* separator's place gives texts without a separator), with or without
\* surrounding blanks
LangInputs ==
    { pad \o name \o ws1 \o <<sep>> \o ws2 \o <<letter, digit>> \o tail \o pad :
        pad \in {<<>>, <<" ">>},
        name \in LangNames,
        ws1 \in {<<>>, <<" ">>},
        sep \in {"-", "u2013", ":", "/"},
        ws2 \in {<<>>, <<" ">>},
        letter \in {"a", "B", "c", "C", "d"},
        digit \in {"1", "2", "3"},
        tail \in LangTails }

\* \w
IsWordChar(c) ==
    c \in {"E", "x", "d", "a", "B", "c", "C", "1", "2", "3", "http://", "https://"}

\* str.lower() of one character
Lower(c) ==
    CASE c = "B" -> "b"
      [] c = "C" -> "c"
      [] c = "E" -> "e"
      [] c = "IN" -> "in"
      [] c = "GitHub.com" -> "github.com"
      [] OTHER -> c

\* [-–:]
LangIsSep(c) == c \in {"-", "u2013", ":"}

\* the end of the pattern as "$": the code ends the text
LangCodeEndsAtEnd(t, i) == i = Len(t)

\* \b after the digit at position i: the text ends there or a non-word
\* character follows
LangCodeEnds(t, i) == i = Len(t) \/ ~IsWordChar(t[i + 1])

\* the first position from i on that holds no whitespace (Len + 1 if none)
RECURSIVE SkipSpaces(_, _)
SkipSpaces(t, i) ==
    IF i <= Len(t) /\ IsSpace(t[i]) THEN SkipSpaces(t, i + 1) ELSE i

\* \s*[-–:]\s*([abc][12])\b tried right after group 1 = t[1..k]: the position
\* of the code's letter, or 0 when the rest of the pattern does not match
LangRestAt(t, k) ==
    LET p == SkipSpaces(t, k + 1) IN
    IF p > Len(t) \/ ~LangIsSep(t[p]) THEN 0
    ELSE LET q == SkipSpaces(t, p + 1) IN
         IF /\ q + 1 <= Len(t)
            /\ Lower(t[q]) \in {"a", "b", "c"}
            /\ t[q + 1] \in {"1", "2"}
            /\ LangCodeEnds(t, q + 1)
         THEN q ELSE 0

\* "." matches every character but the newline
LangDotMatches(c) == c # "\n"

\* re.search(r"(?i)^(.+?)\s*[-–:]\s*([abc][12])\b", t): the lazy group 1 takes
\* the shortest prefix of "." characters after which the rest matches; the
\* match is given as <<group 1, group 2>>, and is None if there is none
LangSearch(t) ==
    LET ks == {k \in 1..Len(t) :
                  /\ \A i \in 1..k : LangDotMatches(t[i])
                  /\ LangRestAt(t, k) # 0} IN
    IF ks = {} THEN None
    ELSE LET k == CHOOSE k \in ks : \A j \in ks : k <= j
             q == LangRestAt(t, k)
         IN  <<SubSeq(t, 1, k), SubSeq(t, q, q + 1)>>

\* the mapping with the two top labels swapped
LangMappingSwapped(lvl) ==
    CASE lvl \in {<<"a", "1">>, <<"a", "2">>} -> <<"Grundkenntnisse">>
      [] lvl \in {<<"b", "1">>, <<"b", "2">>} -> <<"Gute Kenntnisse">>
      [] lvl = <<"c", "2">> -> <<"Sehr gute Kenntnisse">>
      [] lvl = <<"c", "1">> -> <<"Verhandlungssicher">>

\* mapping[lvl]
LangMapping(lvl) ==
    CASE lvl \in {<<"a", "1">>, <<"a", "2">>} -> <<"Grundkenntnisse">>
      [] lvl \in {<<"b", "1">>, <<"b", "2">>} -> <<"Gute Kenntnisse">>
      [] lvl = <<"c", "1">> -> <<"Sehr gute Kenntnisse">>
      [] lvl = <<"c", "2">> -> <<"Verhandlungssicher">>

\* the return without the strip
LangPassThroughRaw(label) == label

\* s = label.strip() ... return s
LangPassThrough(label) == Strip(label)

\* f"{lang} – {mapping.get(lvl, m.group(2))}"
LangFormat(m) ==
    Strip(m[1]) \o <<" ", "u2013", " ">>
        \o LangMapping([i \in 1..2 |-> Lower(m[2][i])])

\* if m: ... return f"..."
LangMatch ==
    /\ fn = "normalize_language_level" /\ pc = "call"
    /\ LangSearch(Strip(txt)) # None
    /\ ret' = LangFormat(LangSearch(Strip(txt)))
    /\ pc' = "done"
    /\ UNCHANGED <<pdfVars, fn, txt, rest, csvVars, projVars, secVars, eduVars>>

\* return s
LangNoMatch ==
    /\ fn = "normalize_language_level" /\ pc = "call"
    /\ LangSearch(Strip(txt)) = None
    /\ ret' = LangPassThrough(txt)
    /\ pc' = "done"
    /\ UNCHANGED <<pdfVars, fn, txt, rest, csvVars, projVars, secVars, eduVars>>

InitLanguage == fn = "normalize_language_level" /\ txt \in LangInputs /\ InitCommon

NextLanguage == LangMatch \/ LangNoMatch

SpecLanguage == InitLanguage /\ [][NextLanguage]_vars

-----------------------------------------------------------------------------
(* extract_social_handle (api/pdf_utils.py)                                *)
(*                                                                         *)
(* Further atoms stand for character runs: the host names "github.com",    *)
(* "GitHub.com", "linkedin.com", "example.com", "tamer.dev", the host      *)
(* prefixes "www." and "m.", the path segments "in" and "IN", the port     *)
(* "80" and the query "?trk=public_profile".  Of all atoms only the two    *)
(* schemes hold a ':' or a '/' inside, and in the inputs below a ':' is    *)
(* followed by "80" only, so "://" occurs in a value exactly where a       *)
(* scheme atom does, and only at its start.  urlparse raises on none of    *)
(* these values, so the except branches are never taken.                   *)

MaxPathLen == 4

SocialKeys == {<<"GitHub">>, <<"LinkedIn">>, <<"Ort">>}

SocialSchemes == {"https://", "http://"}

SocialInputs ==
    LET handles == {<<"u">>, <<"u", "v">>, <<"in">>, <<"github.com">>, <<"u", "?", "v">>}
        hosts   == {<<"github.com">>, <<"www.", "github.com">>, <<"GitHub.com">>,
                    <<"github.com", ":", "80">>, <<"linkedin.com">>,
                    <<"www.", "linkedin.com">>, <<"example.com">>}
        paths   == {<<>>} \cup {<<"/">> \o q :
                                    q \in SeqsUpTo({"/", "u", "in", "IN"}, MaxPathLen - 1)}
        urls    == {sch \o h \o q \o qry :
                        sch \in {<<>>, <<"https://">>, <<"http://">>}, h \in hosts,
                        q \in paths, qry \in {<<>>, <<"?", "v">>}}
    IN  {<<>>, <<" ">>, <<"u", " ", "v">>, <<"u", ":", "80">>}
            \cup {pad \o v \o pad : pad \in {<<>>, <<" ">>}, v \in handles \cup urls}

\* ch in raw, for the characters '/', ':' and ' '
HasChar(raw, ch) ==
    \E i \in 1..Len(raw) :
        IF raw[i] \in SocialSchemes THEN ch \in {":", "/"} ELSE raw[i] = ch

\* "://" in raw
HasSchemeSep(raw) == \E i \in 1..Len(raw) : raw[i] \in SocialSchemes

\* the first position of s at or after i that holds an atom of stops (Len + 1 if none)
FirstOf(s, stops, i) ==
    IF \E j \in i..Len(s) : s[j] \in stops
    THEN CHOOSE j \in i..Len(s) : s[j] \in stops /\ \A k \in i..(j - 1) : s[k] \notin stops
    ELSE Len(s) + 1

\* url = raw if "://" in raw else ("https://" + raw)
UrlOf(raw) == IF HasSchemeSep(raw) THEN raw ELSE <<"https://">> \o raw

\* urlparse(url).netloc: what follows "<scheme>://" up to the first of / ? #
UrlNetloc(url) ==
    IF url # <<>> /\ url[1] \in SocialSchemes
    THEN SubSeq(url, 2, FirstOf(url, {"/", "?", "#"}, 2) - 1)
    ELSE <<>>

\* urlparse(url).path: what follows the netloc up to the first of ? #
UrlPath(url) ==
    LET from == IF url # <<>> /\ url[1] \in SocialSchemes
                THEN FirstOf(url, {"/", "?", "#"}, 2) ELSE 1
    IN  SubSeq(url, from, FirstOf(url, {"?", "#"}, from) - 1)

\* str.lower()
LowerStr(s) == [i \in 1..Len(s) |-> Lower(s[i])]

\* (p.netloc or "").lower()
UrlHost(raw) == LowerStr(UrlNetloc(UrlOf(raw)))

\* [seg for seg in path.strip("/").split("/") if seg]
RECURSIVE PathSegsFrom(_, _, _, _)
PathSegsFrom(path, i, seg, acc) ==
    IF i > Len(path) THEN (IF seg = <<>> THEN acc ELSE Append(acc, seg))
    ELSE IF path[i] = "/"
         THEN PathSegsFrom(path, i + 1, <<>>, IF seg = <<>> THEN acc ELSE Append(acc, seg))
         ELSE PathSegsFrom(path, i + 1, Append(seg, path[i]), acc)

UrlParts(raw) == PathSegsFrom(UrlPath(UrlOf(raw)), 1, <<>>, <<>>)

\* "/" not in raw and " " not in raw and ":" not in raw
SocialIsBare(raw) == ~HasChar(raw, "/") /\ ~HasChar(raw, " ") /\ ~HasChar(raw, ":")

\* "github.com" in host
GitHubHostOk(host) == \E i \in 1..Len(host) : host[i] = "github.com"

\* f"https://github.com/{user}"
GitHubUrl(user) == <<"https://", "github.com", "/">> \o user

\* user = parts[0]
GitHubUserLast(ps) == ps[Len(ps)]

GitHubUser(ps) == ps[1]

LINKEDIN_REDIRECT_URL == <<"https://", "tamer.dev", "/", "in">>

\* _canonical_linkedin_url
canonical_linkedin_url_mobile_first(handle) ==
    IF USE_MOBILE_LINKEDIN
    THEN <<"https://", "m.", "linkedin.com", "/", "in", "/">> \o handle
             \o <<"/", "?trk=public_profile">>
    ELSE IF USE_LINKEDIN_REDIRECT THEN LINKEDIN_REDIRECT_URL
    ELSE <<"https://", "www.", "linkedin.com", "/", "in", "/">> \o handle
             \o <<"/", "?trk=public_profile">>

canonical_linkedin_url(handle) ==
    IF USE_LINKEDIN_REDIRECT THEN LINKEDIN_REDIRECT_URL
    ELSE IF USE_MOBILE_LINKEDIN
    THEN <<"https://", "m.", "linkedin.com", "/", "in", "/">> \o handle
             \o <<"/", "?trk=public_profile">>
    ELSE <<"https://", "www.", "linkedin.com", "/", "in", "/">> \o handle
             \o <<"/", "?trk=public_profile">>

\* parts and parts[0].lower() == "in" and len(parts) >= 2
LinkedInPartsOk(ps) == ps # <<>> /\ LowerStr(ps[1]) = <<"in">> /\ Len(ps) >= 2

\* _normalize_full_linkedin_url
normalize_full_linkedin_url(raw) ==
    IF ~(\E i \in 1..Len(UrlHost(raw)) : UrlHost(raw)[i] = "linkedin.com") THEN None
    ELSE IF LinkedInPartsOk(UrlParts(raw))
         THEN <<UrlParts(raw)[2], canonical_linkedin_url(UrlParts(raw)[2])>>
         ELSE None

\* raw = (url_or_text or "").strip(); if not raw: return None
SocialEmpty ==
    /\ fn = "extract_social_handle" /\ pc = "call"
    /\ ~Truthy(Strip(txt))
    /\ ret' = None
    /\ pc' = "done"
    /\ UNCHANGED <<pdfVars, fn, txt, rest, csvVars, projVars, secVars, eduVars>>

\* a bare user name: the three returns of the first if
SocialBare ==
    /\ fn = "extract_social_handle" /\ pc = "call"
    /\ Truthy(Strip(txt)) /\ SocialIsBare(Strip(txt))
    /\ ret' = CASE key = <<"GitHub">> -> <<Strip(txt), GitHubUrl(Strip(txt))>>
                [] key = <<"LinkedIn">> -> <<Strip(txt), canonical_linkedin_url(Strip(txt))>>
                [] OTHER -> None
    /\ pc' = "done"
    /\ UNCHANGED <<pdfVars, fn, txt, rest, csvVars, projVars, secVars, eduVars>>

\* if key == "GitHub": try: ... return user, f"https://github.com/{user}" ... return None
SocialGitHubUrl ==
    /\ fn = "extract_social_handle" /\ pc = "call"
    /\ Truthy(Strip(txt)) /\ ~SocialIsBare(Strip(txt))
    /\ key = <<"GitHub">>
    /\ ret' = IF GitHubHostOk(UrlHost(Strip(txt))) /\ UrlParts(Strip(txt)) # <<>>
              THEN <<GitHubUser(UrlParts(Strip(txt))),
                     GitHubUrl(GitHubUser(UrlParts(Strip(txt))))>>
              ELSE None
    /\ pc' = "done"
    /\ UNCHANGED <<pdfVars, fn, txt, rest, csvVars, projVars, secVars, eduVars>>

\* if key == "LinkedIn": got = _normalize_full_linkedin_url(raw) ...
SocialLinkedInUrl ==
    /\ fn = "extract_social_handle" /\ pc = "call"
    /\ Truthy(Strip(txt)) /\ ~SocialIsBare(Strip(txt))
    /\ key = <<"LinkedIn">>
    /\ ret' = normalize_full_linkedin_url(Strip(txt))
    /\ pc' = "done"
    /\ UNCHANGED <<pdfVars, fn, txt, rest, csvVars, projVars, secVars, eduVars>>

\* any other key: the function body ends, None is returned
SocialOtherKey ==
    /\ fn = "extract_social_handle" /\ pc = "call"
    /\ Truthy(Strip(txt)) /\ ~SocialIsBare(Strip(txt))
    /\ key \notin {<<"GitHub">>, <<"LinkedIn">>}
    /\ ret' = None
    /\ pc' = "done"
    /\ UNCHANGED <<pdfVars, fn, txt, rest, csvVars, projVars, secVars, eduVars>>

InitSocial ==
    /\ fn = "extract_social_handle" /\ txt \in SocialInputs /\ InitParsers
    /\ InitPhotoVars /\ InitServerVars /\ InitFrontVars
    /\ key \in SocialKeys
    /\ USE_LINKEDIN_REDIRECT \in BOOLEAN
    /\ USE_MOBILE_LINKEDIN \in BOOLEAN

NextSocial ==
    \/ SocialEmpty
    \/ SocialBare
    \/ SocialGitHubUrl
    \/ SocialLinkedInUrl
    \/ SocialOtherKey

SpecSocial == InitSocial /\ [][NextSocial]_vars

-----------------------------------------------------------------------------
(* build_resume_pdf (api/pdf_utils.py): the photo block and what is drawn    *)
(* after it.  The canvas is reportlab's: saveState pushes the graphics      *)
(* state, restoreState pops it, clipPath intersects the clipping path, and  *)
(* everything drawn is drawn under the graphics state current at that time. *)
(* Every call into reportlab may raise; a call that raises has no effect.   *)
(* Lengths are in mm.                                                       *)

\* the statements of the try body, in order: the last one is an assignment,
\* the others call into reportlab
PhotoBlock ==
    <<"ImageReader", "saveState", "beginPath", "p.circle", "clipPath", "drawImage",
      "restoreState", "setStrokeColor", "setLineWidth", "c.circle", "cursor">>

\* what build_resume_pdf draws after the photo block, in order
RestOfDocument == <<"name", "contact", "sections", "projects", "education">>

\* buffer = BytesIO(); c = canvas.Canvas(buffer, pagesize=A4); ...
\* cursor = CARD_TOP - CARD_PAD  (297 - 16 - 6);  if photo_bytes: try:
BuildCall ==
    /\ fn = "build_resume_pdf" /\ pc = "call"
    /\ gs' = NewCanvasState /\ stateStack' = <<>> /\ drawn' = <<>>
    /\ cursor' = 275
    /\ IF Truthy(photo_bytes)
       THEN pc' = "photo" /\ todo' = PhotoBlock
       ELSE pc' = "rest" /\ todo' = RestOfDocument
    /\ UNCHANGED <<fn, txt, rest, ret, csvVars, projVars, secVars, eduVars,
                   socialVars, serverVars, frontVars,
                   photo_bytes, exc>>

\* the next statement of the try body, completing normally
PhotoStep ==
    /\ fn = "build_resume_pdf" /\ pc = "photo" /\ todo # <<>>
    /\ LET stmt == Head(todo) IN
         \* c.saveState() ... c.restoreState()
         /\ stateStack' = CASE stmt = "saveState" -> Append(stateStack, gs)
                            [] stmt = "restoreState" ->
                                   SubSeq(stateStack, 1, Len(stateStack) - 1)
                            [] OTHER -> stateStack
         \* c.clipPath(p, ...), c.setStrokeColor(LEFT_BORDER), c.setLineWidth(1)
         /\ gs' = CASE stmt = "clipPath" -> [gs EXCEPT !.clip = "circle"]
                    [] stmt = "restoreState" -> stateStack[Len(stateStack)]
                    [] stmt = "setStrokeColor" -> [gs EXCEPT !.stroke = "LEFT_BORDER"]
                    [] stmt = "setLineWidth" -> [gs EXCEPT !.width = "1"]
                    [] OTHER -> gs
         \* c.drawImage(img, ix, iy, ...), c.circle(cx, cy, r)
         /\ drawn' = CASE stmt = "drawImage" -> Append(drawn, [what |-> "photo", y |-> cursor - 42, gs |-> gs])
                       [] stmt = "c.circle" -> Append(drawn, [what |-> "ring", y |-> cursor - 42, gs |-> gs])
                       [] OTHER -> drawn
         \* cursor = iy - 6*mm, iy = cursor - d, d = min(inner_w, 42*mm) = 42 mm
         /\ cursor' = IF stmt = "cursor" THEN cursor - 42 - 6 ELSE cursor
    /\ todo' = Tail(todo)
    /\ UNCHANGED <<fn, txt, pc, rest, ret, csvVars, projVars, secVars, eduVars,
                   socialVars, serverVars, frontVars,
                   photo_bytes, exc>>

\* the next statement of the try body raises: except Exception: pass
PhotoRaise ==
    /\ fn = "build_resume_pdf" /\ pc = "photo" /\ todo # <<>>
    /\ Head(todo) # "cursor"
    /\ exc' = <<Head(todo)>>
    /\ pc' = "rest"
    /\ todo' = RestOfDocument
    /\ UNCHANGED <<fn, txt, rest, ret, csvVars, projVars, secVars, eduVars,
                   socialVars, serverVars, frontVars,
                   photo_bytes, cursor, gs, stateStack, drawn>>

\* the try body is done
PhotoEnd ==
    /\ fn = "build_resume_pdf" /\ pc = "photo" /\ todo = <<>>
    /\ pc' = "rest"
    /\ todo' = RestOfDocument
    /\ UNCHANGED <<fn, txt, rest, ret, csvVars, projVars, secVars, eduVars,
                   socialVars, serverVars, frontVars,
                   photo_bytes, cursor, gs, stateStack, drawn, exc>>

\* the next part of the document is drawn at the cursor, which moves down
\* (cursor -= NAME_GAP*mm and the like)
DrawRest ==
    /\ fn = "build_resume_pdf" /\ pc = "rest" /\ todo # <<>>
    /\ drawn' = Append(drawn, [what |-> Head(todo), y |-> cursor, gs |-> gs])
    /\ cursor' = cursor - 10
    /\ todo' = Tail(todo)
    /\ UNCHANGED <<fn, txt, pc, rest, ret, csvVars, projVars, secVars, eduVars,
                   socialVars, serverVars, frontVars,
                   photo_bytes, gs, stateStack, exc>>

\* c.showPage(); c.save(); out = buffer.getvalue(); return out
BuildReturn ==
    /\ fn = "build_resume_pdf" /\ pc = "rest" /\ todo = <<>>
    /\ ret' = drawn
    /\ pc' = "done"
    /\ UNCHANGED <<fn, txt, rest, csvVars, projVars, secVars, eduVars,
                   socialVars, serverVars, frontVars,
                   photoVars>>

InitBuild ==
    /\ fn = "build_resume_pdf" /\ txt = <<>> /\ InitParsers /\ InitSocialVars
    /\ InitServerVars /\ InitFrontVars
    /\ photo_bytes \in {None, <<>>, <<"png">>, <<"jpeg">>, <<"x">>}
    /\ cursor = 0 /\ gs = NewCanvasState /\ stateStack = <<>> /\ drawn = <<>>
    /\ exc = None /\ todo = <<>>

NextBuild ==
    \/ BuildCall
    \/ PhotoStep
    \/ PhotoRaise
    \/ PhotoEnd
    \/ DrawRest
    \/ BuildReturn

SpecBuild == InitBuild /\ [][NextBuild]_vars

-----------------------------------------------------------------------------
(* generate_form (api/main.py): two requests in one server process.  An     *)
(* object of the process is a record on the heap; a local variable holds    *)
(* the identity of an object.  The event loop switches between requests at  *)
(* an await only; here it may switch after every statement.  Of the fields  *)
(* of a request skills_text stands for all: every parser builds its result  *)
(* in a list it creates itself.                                             *)

\* the identity of a newly constructed object; the alternative keeps the
\* first object and hands it out again (a module-level accumulator)
AllocShared(h) == IF h = <<>> THEN Len(h) + 1 ELSE Len(h)

Alloc(h) == Len(h) + 1

\* the heap with object o holding v
Store(h, o, v) == IF o > Len(h) THEN Append(h, v) ELSE [h EXCEPT ![o] = v]

\* the locals of generate_form at entry
NewRequest(t) ==
    [pc |-> "read", skills_text |-> t, lines |-> <<>>,
     parts |-> 0, buffer |-> 0, canvas |-> 0, resp |-> None]

callVars ==
    <<fn, txt, pc, rest, ret, csvVars, projVars, secVars, eduVars, socialVars, photoVars,
      frontVars>>

\* photo_bytes = await photo.read() if photo is not None else None
ReqRead(r) ==
    /\ fn = "generate_form" /\ reqs[r].pc = "read"
    /\ reqs' = [reqs EXCEPT ![r].pc = "parse"]
    /\ UNCHANGED <<callVars, heap>>

\* skills = parse_csv_or_lines(skills_text): if not txt: return []; parts = []
ReqParseCall(r) ==
    /\ fn = "generate_form" /\ reqs[r].pc = "parse"
    /\ heap' = Store(heap, Alloc(heap), [kind |-> "list", val |-> <<>>, ref |-> 0])
    /\ reqs' = [reqs EXCEPT
                  ![r].parts = Alloc(heap),
                  ![r].lines = IF Truthy(reqs[r].skills_text)
                               THEN SplitLines(Replace(reqs[r].skills_text, ",", "\n"))
                               ELSE <<>>,
                  ![r].pc = "loop"]
    /\ UNCHANGED callVars

\* s = line.strip(); if s: parts.append(s)
ReqParseLine(r) ==
    /\ fn = "generate_form" /\ reqs[r].pc = "loop" /\ reqs[r].lines # <<>>
    /\ heap' = [heap EXCEPT ![reqs[r].parts].val = CsvStep(@, Head(reqs[r].lines))]
    /\ reqs' = [reqs EXCEPT ![r].lines = Tail(@)]
    /\ UNCHANGED callVars

\* return parts;  build_resume_pdf: buffer = BytesIO()
ReqBuffer(r) ==
    /\ fn = "generate_form" /\ reqs[r].pc = "loop" /\ reqs[r].lines = <<>>
    /\ heap' = Store(heap, Alloc(heap), [kind |-> "BytesIO", val |-> <<>>, ref |-> 0])
    /\ reqs' = [reqs EXCEPT ![r].buffer = Alloc(heap), ![r].pc = "canvas"]
    /\ UNCHANGED callVars

\* c = canvas.Canvas(buffer, pagesize=A4)
ReqCanvas(r) ==
    /\ fn = "generate_form" /\ reqs[r].pc = "canvas"
    /\ heap' = Store(heap, Alloc(heap),
                     [kind |-> "Canvas", val |-> <<>>, ref |-> reqs[r].buffer])
    /\ reqs' = [reqs EXCEPT ![r].canvas = Alloc(heap), ![r].pc = "draw"]
    /\ UNCHANGED callVars

\* the drawing calls on c, and c.save(): the canvas writes the document,
\* here the skills, into its buffer
ReqDraw(r) ==
    /\ fn = "generate_form" /\ reqs[r].pc = "draw"
    /\ heap' = [heap EXCEPT ![heap[reqs[r].canvas].ref].val =
                                @ \o heap[reqs[r].parts].val]
    /\ reqs' = [reqs EXCEPT ![r].pc = "return"]
    /\ UNCHANGED callVars

\* out = buffer.getvalue(); return out;  return Response(content=pdf, ...)
ReqReturn(r) ==
    /\ fn = "generate_form" /\ reqs[r].pc = "return"
    /\ reqs' = [reqs EXCEPT ![r].resp = heap[reqs[r].buffer].val, ![r].pc = "done"]
    /\ UNCHANGED <<callVars, heap>>

InitServer ==
    /\ fn = "generate_form" /\ txt = <<>>
    /\ InitParsers /\ InitSocialVars /\ InitPhotoVars /\ InitFrontVars
    /\ heap = <<>>
    /\ reqs \in [Requests -> {NewRequest(t) :
                                t \in {<<>>, <<"a">>, <<"b", ",", " ", "a">>}}]

NextServer ==
    \E r \in Requests :
        \/ ReqRead(r)
        \/ ReqParseCall(r)
        \/ ReqParseLine(r)
        \/ ReqBuffer(r)
        \/ ReqCanvas(r)
        \/ ReqDraw(r)
        \/ ReqReturn(r)

SpecServer == InitServer /\ [][NextServer]_vars

-----------------------------------------------------------------------------
(* persist_json_atomic (frontend/app.py): the Save action of one or two     *)
(* sessions of the Streamlit process on one preset name.  The file system   *)
(* is POSIX: a path names an inode, open(.., "w") creates the file or       *)
(* truncates the inode the path names, a write goes to the inode of the     *)
(* descriptor at the descriptor's offset, os.replace renames atomically.    *)
(* A JSON document is the sequence of chunks json.dump writes; f keeps      *)
(* them in its buffer and writes the buffer out when it is full (at any     *)
(* time, here) and on flush.  Offsets count chunks.                         *)

\* the variables of the API process, which the frontend's handlers leave alone
apiVars ==
    <<txt, rest, ret, csvVars, projVars, secVars, eduVars, socialVars, photoVars,
      serverVars>>

Sessions == {"session 1", "session 2"}

\* path.with_suffix(path.suffix + ".tmp"); the alternative writes in place
TmpIsPath(f) == f

TmpOf(f) == "tmp"

\* the content of a file after chunks were written at offset at
WriteAt(content, at, chunks) ==
    LET end == IF Len(content) > at + Len(chunks) THEN Len(content) ELSE at + Len(chunks)
    IN  [i \in 1..end |->
            IF i > at /\ i <= at + Len(chunks) THEN chunks[i - at]
            ELSE IF i <= Len(content) THEN content[i] ELSE "hole"]

\* with open(tmp, "w", encoding="utf-8") as f:
PersistOpen(u) ==
    /\ fn = "persist_json_atomic" /\ saves[u].pc = "open"
    /\ IF fsDir[TmpOf("path")] # 0
       THEN /\ fsInodes' = [fsInodes EXCEPT ![fsDir[TmpOf("path")]] = <<>>]
            /\ UNCHANGED fsDir
       ELSE /\ fsInodes' = Append(fsInodes, <<>>)
            /\ fsDir' = [fsDir EXCEPT ![TmpOf("path")] = Len(fsInodes) + 1]
    /\ saves' = [saves EXCEPT ![u].fd = fsDir'[TmpOf("path")], ![u].pos = 0,
                              ![u].buf = <<>>, ![u].left = saves[u].data,
                              ![u].pc = "dump"]
    /\ UNCHANGED <<fn, pc, apiVars, generateVars>>

\* json.dump(data, f, ensure_ascii=False, indent=2): the next chunk
PersistDump(u) ==
    /\ fn = "persist_json_atomic" /\ saves[u].pc = "dump" /\ saves[u].left # <<>>
    /\ saves' = [saves EXCEPT ![u].buf = Append(@, Head(saves[u].left)),
                              ![u].left = Tail(@)]
    /\ UNCHANGED <<fn, pc, apiVars, generateVars, fsInodes, fsDir>>

\* inside json.dump: f writes its full buffer to the file
PersistSpill(u) ==
    /\ fn = "persist_json_atomic" /\ saves[u].pc = "dump"
    /\ saves[u].left # <<>> /\ saves[u].buf # <<>>
    /\ fsInodes' = [fsInodes EXCEPT ![saves[u].fd] = WriteAt(@, saves[u].pos, saves[u].buf)]
    /\ saves' = [saves EXCEPT ![u].pos = @ + Len(saves[u].buf), ![u].buf = <<>>]
    /\ UNCHANGED <<fn, pc, apiVars, generateVars, fsDir>>

\* f.flush(); os.fsync(f.fileno()); and f is closed
PersistFlush(u) ==
    /\ fn = "persist_json_atomic" /\ saves[u].pc = "dump" /\ saves[u].left = <<>>
    /\ fsInodes' = [fsInodes EXCEPT ![saves[u].fd] = WriteAt(@, saves[u].pos, saves[u].buf)]
    /\ saves' = [saves EXCEPT ![u].pos = @ + Len(saves[u].buf), ![u].buf = <<>>,
                              ![u].pc = "replace"]
    /\ UNCHANGED <<fn, pc, apiVars, generateVars, fsDir>>

\* os.replace(tmp, path); it raises FileNotFoundError if tmp does not exist
PersistReplace(u) ==
    /\ fn = "persist_json_atomic" /\ saves[u].pc = "replace"
    /\ IF fsDir[TmpOf("path")] = 0
       THEN /\ saves' = [saves EXCEPT ![u].pc = "failed"]
            /\ UNCHANGED fsDir
       ELSE /\ saves' = [saves EXCEPT ![u].pc = "done"]
            /\ fsDir' = [f \in DOMAIN fsDir |->
                            IF f = "path" THEN fsDir[TmpOf("path")]
                            ELSE IF f = TmpOf("path") THEN 0 ELSE fsDir[f]]
    /\ UNCHANGED <<fn, pc, apiVars, generateVars, fsInodes>>

\* the process stops: the calls in progress go no further, the buffers of
\* their files are lost, the file system stays as it is
PersistStop ==
    /\ fn = "persist_json_atomic"
    /\ \E u \in Sessions : saves[u].pc \in {"open", "dump", "replace"}
    /\ saves' = [u \in Sessions |->
                    IF saves[u].pc \in {"open", "dump", "replace"}
                    THEN [saves[u] EXCEPT !.pc = "stopped", !.buf = <<>>]
                    ELSE saves[u]]
    /\ UNCHANGED <<fn, pc, apiVars, generateVars, fsInodes, fsDir>>

\* one call, or two calls on the same path; the target does not exist or
\* holds a complete earlier document
InitPersist ==
    /\ fn = "persist_json_atomic" /\ txt = <<>>
    /\ InitParsers /\ InitSocialVars /\ InitPhotoVars /\ InitServerVars
    /\ pdf_bytes = None /\ pdf_filename = <<"resume.pdf">> /\ outputs = <<>>
    /\ sidebar = None /\ resp = None /\ clicks = 0
    /\ \/ fsInodes = <<>> /\ fsDir = [f \in {"path", "tmp"} |-> 0]
       \/ fsInodes = << <<"old">> >> /\ fsDir = [f \in {"path", "tmp"} |-> IF f = "path" THEN 1 ELSE 0]
    /\ saves \in [Sessions ->
                    {[pc |-> q, data |-> d, left |-> <<>>, buf |-> <<>>, fd |-> 0, pos |-> 0] :
                        q \in {"open", "off"},
                        d \in {<<"x1", "x2">>, <<"y1", "y2", "y3">>}}]
    /\ saves["session 1"].pc = "open"

NextPersist ==
    \/ \E u \in Sessions :
          \/ PersistOpen(u)
          \/ PersistDump(u)
          \/ PersistSpill(u)
          \/ PersistFlush(u)
          \/ PersistReplace(u)
    \/ PersistStop

SpecPersist == InitPersist /\ [][NextPersist]_vars

-----------------------------------------------------------------------------
(* The Generate PDF handler of one session (frontend/app.py).  resp is the  *)
(* response of requests.post as <<status, content>>, outputs the contents   *)
(* of the files of the outputs directory in the order they were created,    *)
(* sidebar the message the run has shown.                                   *)

MaxClicks == 2

\* requests' Response.raise_for_status raises HTTPError for these statuses
raise_for_status(status) == status >= 400 /\ status < 600

\* if generate: the button was pressed, the script runs again
GenClick ==
    /\ fn = "generate" /\ pc \in {"call", "done"}
    /\ clicks < MaxClicks
    /\ clicks' = clicks + 1
    /\ sidebar' = None /\ resp' = None
    /\ pc' = "post"
    /\ UNCHANGED <<fn, apiVars, persistVars, pdf_bytes, pdf_filename, outputs>>

\* requests.post(...) raises a RequestException (no connection, timeout)
GenPostFail ==
    /\ fn = "generate" /\ pc = "post"
    /\ sidebar' = <<"Request failed">>
    /\ pc' = "done"
    /\ UNCHANGED <<fn, apiVars, persistVars, pdf_bytes, pdf_filename, outputs, resp, clicks>>

\* resp = requests.post(url, data=data, files=files, timeout=60)
GenPostResponse ==
    /\ fn = "generate" /\ pc = "post"
    /\ \E status \in {200, 201, 304, 404, 500}, content \in {<<"body 1">>, <<"body 2">>} :
          resp' = <<status, content>>
    /\ pc' = "raise_for_status"
    /\ UNCHANGED <<fn, apiVars, persistVars, pdf_bytes, pdf_filename, outputs, sidebar, clicks>>

\* resp.raise_for_status()
GenRaiseForStatus ==
    /\ fn = "generate" /\ pc = "raise_for_status"
    /\ IF raise_for_status(resp[1])
       THEN sidebar' = <<"Request failed">> /\ pc' = "done"
       ELSE sidebar' = sidebar /\ pc' = "store"
    /\ UNCHANGED <<fn, apiVars, persistVars, pdf_bytes, pdf_filename, outputs, resp, clicks>>

\* st.session_state.pdf_bytes = resp.content; pdf_filename = "resume.pdf"
GenStore ==
    /\ fn = "generate" /\ pc = "store"
    /\ pdf_bytes' = resp[2]
    /\ pdf_filename' = <<"resume.pdf">>
    /\ pc' = "write"
    /\ UNCHANGED <<fn, apiVars, persistVars, outputs, sidebar, resp, clicks>>

\* with open(pdf_path, "wb") as f: f.write(pdf_bytes)
GenWrite ==
    /\ fn = "generate" /\ pc = "write"
    /\ outputs' = Append(outputs, pdf_bytes)
    /\ pc' = "success"
    /\ UNCHANGED <<fn, apiVars, persistVars, pdf_bytes, pdf_filename, sidebar, resp, clicks>>

\* open or f.write raises OSError: no file, or a file without the content
GenWriteFail ==
    /\ fn = "generate" /\ pc = "write"
    /\ \/ outputs' = outputs
       \/ outputs' = Append(outputs, <<>>)
    /\ sidebar' = <<"Unexpected error">>
    /\ pc' = "done"
    /\ UNCHANGED <<fn, apiVars, persistVars, pdf_bytes, pdf_filename, resp, clicks>>

\* st.sidebar.success(...)
GenSuccess ==
    /\ fn = "generate" /\ pc = "success"
    /\ sidebar' = <<"success">>
    /\ pc' = "done"
    /\ UNCHANGED <<fn, apiVars, persistVars, pdf_bytes, pdf_filename, outputs, resp, clicks>>

InitGenerate == fn = "generate" /\ txt = <<>> /\ InitCommon

NextGenerate ==
    \/ GenClick
    \/ GenPostFail
    \/ GenPostResponse
    \/ GenRaiseForStatus
    \/ GenStore
    \/ GenWrite
    \/ GenWriteFail
    \/ GenSuccess

SpecGenerate == InitGenerate /\ [][NextGenerate]_vars

-----------------------------------------------------------------------------
(* The five text parsers of api/main.py on one family of free texts *)

MaxFreeLen == 3

ParserNames ==
    {"parse_csv_or_lines", "parse_projects_blocks", "parse_sections_text",
     "parse_education_blocks", "normalize_language_level"}

\* every text of up to MaxFreeLen atoms, and the language line "a-a1"
FreeTexts ==
    SeqsUpTo({"a", "1", " ", "\n", ",", "[", "]", "-", "http://"}, MaxFreeLen)
        \cup {<<"a", "-", "a", "1">>}

InitFreeText == fn \in ParserNames /\ txt \in FreeTexts /\ InitCommon

NextFreeText ==
    \/ NextCsv
    \/ NextProjects
    \/ NextSections
    \/ NextEducation
    \/ NextLanguage

\* a call of a parser runs to its return: the interpreter keeps executing it
SpecFreeText == InitFreeText /\ [][NextFreeText]_vars /\ WF_vars(NextFreeText)

-----------------------------------------------------------------------------
(* Reference notions the claims are stated with *)

Min(S) == CHOOSE m \in S : \A x \in S : m <= x
Max(S) == CHOOSE m \in S : \A x \in S : m >= x

RECURSIVE Ascending(_)
Ascending(S) == IF S = {} THEN <<>> ELSE <<Min(S)>> \o Ascending(S \ {Min(S)})

\* s without its leading and trailing whitespace
Trimmed(s) ==
    LET ink == {i \in 1..Len(s) : ~IsSpace(s[i])}
    IN  IF ink = {} THEN <<>> ELSE SubSeq(s, Min(ink), Max(ink))

\* the pieces of s between the atoms of seps, in order, empty ones included
PiecesOf(s, seps) ==
    LET cuts   == {0} \cup {i \in 1..Len(s) : s[i] \in seps} \cup {Len(s) + 1}
        starts == Ascending(cuts \ {Len(s) + 1})
        end(p) == Min({q \in cuts : q > p})
    IN  [k \in 1..Len(starts) |-> SubSeq(s, starts[k] + 1, end(starts[k]) - 1)]

NonEmpty(s) == s # <<>>

TrimmedNonEmptyPieces(s, seps) ==
    LET ps == PiecesOf(s, seps)
    IN  SelectSeq([k \in 1..Len(ps) |-> Trimmed(ps[k])], NonEmpty)

-----------------------------------------------------------------------------
(* C1 *)

CsvDone == fn = "parse_csv_or_lines" /\ pc = "done"

\* C1: parse_csv_or_lines returns exactly the trimmed, non-empty pieces of its
\* argument split on commas and line breaks alike, in input order, duplicates
\* kept; no element is empty or has whitespace at either end; an empty or
\* whitespace-only argument gives the empty list.
C1_CsvPieces ==
    CsvDone =>
        /\ parts = TrimmedNonEmptyPieces(txt, {",", "\n", "\r"})
        /\ \A i \in 1..Len(parts) :
              /\ parts[i] # <<>>
              /\ ~IsSpace(parts[i][1])
              /\ ~IsSpace(parts[i][Len(parts[i])])
        /\ (\A i \in 1..Len(txt) : IsSpace(txt[i])) => parts = <<>>

\* a comma and a line break both separate, and a duplicate is kept
C1_Witness ==
    /\ CsvDone
    /\ \E i, j \in 1..Len(txt) : txt[i] = "," /\ txt[j] = "\n"
    /\ Len(parts) = 3 /\ parts[1] = parts[2] /\ parts[2] # parts[3]

-----------------------------------------------------------------------------
(* Blocks of a text: its maximal runs of consecutive non-blank lines *)

NonBlankAt(L, i) == Trimmed(L[i]) # <<>>

\* the runs of the line list L, each a list of trimmed lines, in input order
RunsOfLines(L) ==
    LET starts == Ascending({i \in 1..Len(L) :
                      NonBlankAt(L, i) /\ (i = 1 \/ ~NonBlankAt(L, i - 1))})
        end(i) == Max({j \in i..Len(L) : \A k \in i..j : NonBlankAt(L, k)})
    IN  [r \in 1..Len(starts) |->
            [m \in 1..(end(starts[r]) - starts[r] + 1) |->
                Trimmed(L[starts[r] + m - 1])]]

Runs(s) == RunsOfLines(SplitLines(s))

\* the line begins with one of the two URL schemes
HasScheme(line) == line # <<>> /\ line[1] \in {"http://", "https://"}

Last(run) == run[Len(run)]

\* the lines of a description
DescLines(desc) == PiecesOf(desc, {"\n"})

InSeq(x, q) == \E i \in 1..Len(q) : q[i] = x

\* q without the elements at the positions in drop
Without(q, drop) ==
    LET keep == Ascending((1..Len(q)) \ drop)
    IN  [i \in 1..Len(keep) |-> q[keep[i]]]

ProjectsDone == fn = "parse_projects_blocks" /\ pc = "done"

\* record k belongs to run k
ProjAligned == Len(blocks) = Len(Runs(txt))

-----------------------------------------------------------------------------
(* C3 *)

\* C3: a block that consists of a title line only gives a record with that
\* title, an empty description and no link; it is not discarded.
C3_TitleOnlyKept ==
    ProjectsDone =>
        \A k \in 1..Len(Runs(txt)) :
            Len(Runs(txt)[k]) = 1 =>
                /\ k <= Len(blocks)
                /\ blocks[k] = <<Runs(txt)[k][1], <<>>, None>>

\* a title-only block after a block with a body
C3_Witness ==
    /\ ProjectsDone
    /\ Len(Runs(txt)) = 2
    /\ Len(Runs(txt)[2]) = 1 /\ Len(Runs(txt)[1]) > 1
    /\ blocks[2] = <<Runs(txt)[2][1], <<>>, None>>

-----------------------------------------------------------------------------
(* C4 *)

\* C4 as stated: a record's link is the last line of its block, and a line
\* with a URL scheme that is not the block's last line stays in the
\* description.
C4_LinkOnlyLastLine ==
    ProjectsDone =>
        /\ ProjAligned
        /\ \A k \in 1..Len(blocks) :
              LET run == Runs(txt)[k] IN
              /\ blocks[k][3] # None => blocks[k][3] = Last(run)
              /\ \A j \in 2..(Len(run) - 1) :
                    HasScheme(run[j]) => InSeq(run[j], DescLines(blocks[k][2]))

\* C4 amended: a line is extracted as the block's link exactly when it is not
\* the block's first line and starts with http:// or https://; the record's
\* link is the last such line of the block (none if there is no such line),
\* wherever in the block it stands, and no such line is part of the
\* description.
C4_LinkIsLastSchemeLine ==
    ProjectsDone =>
        /\ ProjAligned
        /\ \A k \in 1..Len(blocks) :
              LET run   == Runs(txt)[k]
                  links == {j \in 2..Len(run) : HasScheme(run[j])}
              IN  /\ blocks[k][3] = IF links = {} THEN None ELSE run[Max(links)]
                  /\ \A j \in links : ~InSeq(run[j], DescLines(blocks[k][2]))

\* a link taken from the middle of a block, description lines after it
C4_Witness ==
    /\ ProjectsDone
    /\ Len(blocks) = 1
    /\ LET run == Runs(txt)[1] IN
         /\ Len(run) >= 3
         /\ HasScheme(run[2]) /\ ~HasScheme(Last(run))
         /\ blocks[1][3] = run[2]
         /\ blocks[1][2] = Last(run)

-----------------------------------------------------------------------------
(* C5 *)

\* C5 as stated: whatever the number of lines of a block, if its last line
\* starts with http:// or https:// that line is the record's link and is not
\* part of the description.
C5_LastLineLinkAnyLength ==
    ProjectsDone =>
        /\ ProjAligned
        /\ \A k \in 1..Len(blocks) :
              LET run == Runs(txt)[k] IN
              HasScheme(Last(run)) =>
                  /\ blocks[k][3] = Last(run)
                  /\ ~InSeq(Last(run), DescLines(blocks[k][2]))

\* C5 amended: for every block of at least two lines whose last line starts
\* with http:// or https://, the record's link equals that last line and the
\* line is not part of the description.
C5_LastLineLinkFromTwoLines ==
    ProjectsDone =>
        /\ ProjAligned
        /\ \A k \in 1..Len(blocks) :
              LET run == Runs(txt)[k] IN
              (Len(run) >= 2 /\ HasScheme(Last(run))) =>
                  /\ blocks[k][3] = Last(run)
                  /\ ~InSeq(Last(run), DescLines(blocks[k][2]))

\* title, description, link on the last line
C5_Witness ==
    /\ ProjectsDone
    /\ Len(blocks) = 1
    /\ LET run == Runs(txt)[1] IN
         /\ Len(run) = 3
         /\ ~HasScheme(run[2]) /\ HasScheme(run[3])
         /\ blocks[1] = <<run[1], run[2], run[3]>>

-----------------------------------------------------------------------------
(* C6 *)

\* C6: every line of a block is kept in exactly one field of its record: the
\* first line is the title, one line (or none) is the link, and all the
\* other lines, in input order and joined with newlines, are the description.
C6_NoLineLost ==
    ProjectsDone =>
        /\ ProjAligned
        /\ \A k \in 1..Len(blocks) :
              LET run == Runs(txt)[k] IN
              \E j \in {0} \cup (2..Len(run)) :
                  /\ blocks[k][1] = run[1]
                  /\ blocks[k][2] = Join("\n", Without(run, {1, j}))
                  /\ blocks[k][3] = IF j = 0 THEN None ELSE run[j]

-----------------------------------------------------------------------------
(* C7 *)

\* C7: one record per maximal run of consecutive non-blank lines, in input
\* order (record k has the first line of run k as its title); blank lines
\* before, between or after blocks give no extra and no empty record.
C7_OneRecordPerRun ==
    ProjectsDone =>
        /\ Len(blocks) = Len(Runs(txt))
        /\ \A k \in 1..Len(blocks) :
              /\ blocks[k][1] = Runs(txt)[k][1]
              /\ blocks[k] # <<<<>>, <<>>, None>>

\* two blocks with two blank lines between them
C7_Witness ==
    /\ ProjectsDone
    /\ Len(blocks) = 2
    /\ LET L == SplitLines(txt) IN
         \E i \in 2..(Len(L) - 2) : ~NonBlankAt(L, i) /\ ~NonBlankAt(L, i + 1)

-----------------------------------------------------------------------------
(* Line kinds of the section grammar, on a trimmed line *)

BulletMarkers == {"-", "u2022", "u2013"}

IsBlankLine(t) == t = <<>>

IsBracketLine(t) == Len(t) >= 2 /\ t[1] = "[" /\ t[Len(t)] = "]"

IsBulletLine(t) == t # <<>> /\ ~IsBracketLine(t) /\ t[1] \in BulletMarkers

IsContinuationLine(t) == t # <<>> /\ ~IsBracketLine(t) /\ t[1] \notin BulletMarkers

\* the text between the brackets, trimmed
BracketText(t) == Trimmed([i \in 1..(Len(t) - 2) |-> t[i + 1]])

\* the text after the bullet marker, trimmed
BulletText(t) == Trimmed([i \in 1..(Len(t) - 1) |-> t[i + 1]])

SectionsRunning == fn = "parse_sections_text" /\ pc = "loop"
SectionsDone    == fn = "parse_sections_text" /\ pc = "done"

\* the trimmed lines of the argument
SecLines == LET L == SplitLines(txt) IN [i \in 1..Len(L) |-> Trimmed(L[i])]

\* the number of lines the loop has visited
Visited == Len(SplitLines(txt)) - Len(rest)

-----------------------------------------------------------------------------
(* C2 *)

\* C2: every section in the output has a non-empty title and at least one
\* line, whichever event flushed it (the output only grows, so this is
\* stated of the output at every step).
C2_SectionsHaveTitleAndLines ==
    fn = "parse_sections_text" =>
        \A i \in 1..Len(sections) :
            /\ sections[i].title # None
            /\ sections[i].title # <<>>
            /\ Len(sections[i].lines) >= 1

\* a titled section without lines was closed by a blank line, bullets without
\* a title were closed by a bracket line, and only the complete section that
\* the end of input closed is in the output
C2_Witness ==
    /\ SectionsDone
    /\ Len(SecLines) = 5
    /\ IsBracketLine(SecLines[1]) /\ BracketText(SecLines[1]) # <<>>
    /\ IsBlankLine(SecLines[2])
    /\ IsBulletLine(SecLines[3])
    /\ IsBracketLine(SecLines[4]) /\ BracketText(SecLines[4]) # <<>>
    /\ IsBulletLine(SecLines[5])
    /\ Len(sections) = 1

-----------------------------------------------------------------------------
(* C8 *)

\* a text of sections, each a [Title] line with a non-empty title followed
\* by one or more bullet lines, with blank lines only between sections
IsSectionList(L) ==
    /\ Len(L) >= 2
    /\ IsBracketLine(L[1])
    /\ IsBulletLine(L[Len(L)])
    /\ \A i \in 1..Len(L) :
          \/ /\ IsBracketLine(L[i])
             /\ BracketText(L[i]) # <<>>
             /\ i < Len(L) /\ IsBulletLine(L[i + 1])
          \/ IsBulletLine(L[i])
          \/ /\ IsBlankLine(L[i])
             /\ i > 1 /\ (IsBulletLine(L[i - 1]) \/ IsBlankLine(L[i - 1]))
             /\ i < Len(L) /\ (IsBracketLine(L[i + 1]) \/ IsBlankLine(L[i + 1]))

\* the sections such a text denotes
SectionsOfList(L) ==
    LET heads   == Ascending({i \in 1..Len(L) : IsBracketLine(L[i])})
        last(i) == Max({j \in i..Len(L) : \A k \in (i + 1)..j : IsBulletLine(L[k])})
    IN  [r \in 1..Len(heads) |->
            [title |-> BracketText(L[heads[r]]),
             lines |-> [m \in 1..(last(heads[r]) - heads[r]) |->
                           BulletText(L[heads[r] + m])]]]

\* C8: for a text of [Title] sections with bullet lines, the output is
\* exactly those sections in input order, each with its trimmed title and
\* its items (marker stripped, trimmed) in input order, whether a blank line
\* or the next bracket line closes a section.
C8_SectionListParsed ==
    (SectionsDone /\ IsSectionList(SecLines)) =>
        sections = SectionsOfList(SecLines)

\* two sections separated by a blank line, their items under different
\* markers
C8_Witness ==
    /\ SectionsDone
    /\ IsSectionList(SecLines)
    /\ \E i \in 1..Len(SecLines) : IsBlankLine(SecLines[i])
    /\ Len(sections) = 2
    /\ \E i, j \in 1..Len(SecLines) :
          /\ IsBulletLine(SecLines[i]) /\ SecLines[i][1] = "-"
          /\ IsBulletLine(SecLines[j]) /\ SecLines[j][1] = "u2022"

-----------------------------------------------------------------------------
(* C9 *)

\* C9: a continuation line (non-blank, neither bracket nor bullet) is
\* appended to the last item, joined by one space, if the section has an
\* item; otherwise it becomes the title if no (non-empty) title is set; a
\* title that is set is never overwritten by it; the output is untouched.
C9_ContinuationStep ==
    [][ (SectionsRunning /\ rest # <<>> /\ IsContinuationLine(Trimmed(Head(rest)))) =>
            LET s == Trimmed(Head(rest)) IN
            /\ lines # <<>> =>
                  /\ Len(lines') = Len(lines)
                  /\ \A i \in 1..(Len(lines) - 1) : lines'[i] = lines[i]
                  /\ lines'[Len(lines)] = lines[Len(lines)] \o <<" ">> \o s
                  /\ title' = title
            /\ (lines = <<>> /\ title \in {None, <<>>}) =>
                  /\ title' = s
                  /\ lines' = <<>>
            /\ title \notin {None, <<>>} => title' = title
            /\ sections' = sections
      ]_vars

\* an implicit title was taken from the first line, and a later continuation
\* line was merged into the item before it
C9_Witness ==
    /\ SectionsRunning
    /\ Visited = 3
    /\ IsContinuationLine(SecLines[1])
    /\ IsBulletLine(SecLines[2])
    /\ IsContinuationLine(SecLines[3])
    /\ title = SecLines[1]
    /\ lines = <<BulletText(SecLines[2]) \o <<" ">> \o SecLines[3]>>

-----------------------------------------------------------------------------
(* C10 *)

\* C10: once a continuation line has been processed, its text is part of the
\* section in progress: it ends the last item, or it is the title.
C10_ContinuationKept ==
    (SectionsRunning /\ Visited >= 1 /\ IsContinuationLine(SecLines[Visited])) =>
        \/ lines # <<>> /\ EndsWith(lines[Len(lines)], SecLines[Visited])
        \/ title = SecLines[Visited]

-----------------------------------------------------------------------------
(* parse_sections_text as a function of its argument *)

\* the for loop over the lines ls, from the locals (secs, t, items), then the
\* final flush
RECURSIVE SecLoop(_, _, _, _)
SecLoop(ls, secs, t, items) ==
    IF ls = <<>> THEN SecFlush(secs, t, items)
    ELSE LET s == Strip(Head(ls)) IN
         IF ~Truthy(s)
         THEN SecLoop(Tail(ls), SecFlush(secs, t, items), None, <<>>)
         ELSE IF SecIsBracket(s)
         THEN SecLoop(Tail(ls), SecFlush(secs, t, items), SecBracketTitle(s), <<>>)
         ELSE IF SecIsBullet(s)
         THEN SecLoop(Tail(ls), secs, t, Append(items, SecBulletItem(s)))
         ELSE SecLoop(Tail(ls), secs, SecContinue(t, items, s).title,
                      SecContinue(t, items, s).lines)

ParseSectionsText(text) == SecLoop(SplitLines(text), <<>>, None, <<>>)

-----------------------------------------------------------------------------
(* C11 *)

\* one section as text: [title], then one "- item" line per item
SectionText(sec) ==
    Join("\n", <<<<"[">> \o sec.title \o <<"]">>>>
                 \o [i \in 1..Len(sec.lines) |-> <<"-", " ">> \o sec.lines[i]])

\* the canonical text of a list of sections, a blank line between sections
RECURSIVE CanonicalText(_)
CanonicalText(secs) ==
    IF secs = <<>> THEN <<>>
    ELSE IF Len(secs) = 1 THEN SectionText(secs[1])
    ELSE SectionText(secs[1]) \o <<"\n", "\n">> \o CanonicalText(Tail(secs))

\* C11: parsing the canonical text of the parser's output gives the same
\* list of sections, with the same titles and the same items.
C11_CanonicalRoundTrip ==
    SectionsDone => ParseSectionsText(CanonicalText(sections)) = sections

\* the function and the stepwise run agree on the output (sanity of SecLoop)
SecLoopAgrees == SectionsDone => ParseSectionsText(txt) = sections

-----------------------------------------------------------------------------
(* C20 *)

\* s without its trailing whitespace
RightTrimmed(s) ==
    LET ink == {i \in 1..Len(s) : ~IsSpace(s[i])}
    IN  IF ink = {} THEN <<>> ELSE SubSeq(s, 1, Max(ink))

\* the maximal runs of consecutive non-blank lines of L, the lines as they are
RawRunsOfLines(L) ==
    LET starts == Ascending({i \in 1..Len(L) :
                      NonBlankAt(L, i) /\ (i = 1 \/ ~NonBlankAt(L, i - 1))})
        end(i) == Max({j \in i..Len(L) : \A k \in i..j : NonBlankAt(L, k)})
    IN  [r \in 1..Len(starts) |->
            [m \in 1..(end(starts[r]) - starts[r] + 1) |-> L[starts[r] + m - 1]]]

RECURSIVE Flatten(_)
Flatten(qs) == IF qs = <<>> THEN <<>> ELSE Head(qs) \o Flatten(Tail(qs))

EducationDone == fn = "parse_education_blocks" /\ pc = "done"

-----------------------------------------------------------------------------
(* The language-separator-code shape *)

LanguageDone == fn = "normalize_language_level" /\ pc = "done"

IsSeparator(c) == c \in {"-", "u2013", ":"}

\* a CEFR code, in any letter case
IsCefr(letter, digit) ==
    letter \in {"a", "A", "b", "B", "c", "C"} /\ digit \in {"1", "2"}

\* the label of a CEFR code
CefrLabel(letter, digit) ==
    CASE letter \in {"a", "A"} -> <<"Grundkenntnisse">>
      [] letter \in {"b", "B"} -> <<"Gute Kenntnisse">>
      [] letter \in {"c", "C"} /\ digit = "1" -> <<"Sehr gute Kenntnisse">>
      [] letter \in {"c", "C"} /\ digit = "2" -> <<"Verhandlungssicher">>

\* the last position before i that holds no whitespace (0 if none)
LastInkBefore(x, i) == Max({0} \cup {j \in 1..(i - 1) : ~IsSpace(x[j])})

\* the first position after i that holds no whitespace (Len + 1 if none)
FirstInkAfter(x, i) == Min({Len(x) + 1} \cup {j \in (i + 1)..Len(x) : ~IsSpace(x[j])})

\* x is  <language name><separator><CEFR code>,  blanks allowed around the
\* separator: the code is the last two characters
HasCodeLast(x) ==
    /\ Len(x) >= 4
    /\ IsCefr(x[Len(x) - 1], x[Len(x)])
    /\ LET p == LastInkBefore(x, Len(x) - 1) IN
         /\ p >= 2
         /\ IsSeparator(x[p])
         /\ Trimmed(SubSeq(x, 1, p - 1)) # <<>>

\* the language name of such a text: all that precedes the separator, trimmed
NameBeforeLastCode(x) ==
    Trimmed(SubSeq(x, 1, LastInkBefore(x, Len(x) - 1) - 1))

LanguageLine(name, label) == name \o <<" ", "u2013", " ">> \o label

\* the separator at position p, not the first character, is followed, after
\* optional blanks, by a CEFR code that ends the text or is followed by a
\* non-word character; and no line break stands before it, other than in
\* the blanks directly before it
CodeFollowsSep(t, p) ==
    /\ p >= 2 /\ p <= Len(t)
    /\ IsSeparator(t[p])
    /\ \A i \in 1..LastInkBefore(t, p) : t[i] # "\n"
    /\ LET q == FirstInkAfter(t, p) IN
         /\ q + 1 <= Len(t)
         /\ IsCefr(t[q], t[q + 1])
         /\ (q + 1 = Len(t) \/ ~IsWordChar(t[q + 2]))

SepsWithCode(t) == {p \in 1..Len(t) : CodeFollowsSep(t, p)}

\* what the first separator with a code makes of the text
RewrittenAt(t, p) ==
    LET q == FirstInkAfter(t, p) IN
    LanguageLine(Trimmed(SubSeq(t, 1, p - 1)), CefrLabel(t[q], t[q + 1]))

-----------------------------------------------------------------------------
(* C12 *)

\* C12 as stated: for every text  <language name><separator><CEFR code>  the
\* result is "<language name> – <label>" with the label of the code and the
\* trimmed text before the separator as the name.
C12_ShapeRewritten ==
    (LanguageDone /\ HasCodeLast(txt)) =>
        ret = LanguageLine(NameBeforeLastCode(txt),
                           CefrLabel(txt[Len(txt) - 1], txt[Len(txt)]))

\* C12 amended: the same, for a text in which no earlier separator is itself
\* followed by a CEFR code (the language name holds no "separator, code"
\* of its own) and whose language name holds no line break.
C12_ShapeRewrittenFirstCode ==
    (LanguageDone /\ HasCodeLast(txt)
        /\ \A i \in 1..Len(NameBeforeLastCode(txt)) : NameBeforeLastCode(txt)[i] # "\n"
        /\ \A p \in SepsWithCode(Trimmed(txt)) :
              FirstInkAfter(Trimmed(txt), p) = Len(Trimmed(txt)) - 1) =>
        ret = LanguageLine(NameBeforeLastCode(txt),
                           CefrLabel(txt[Len(txt) - 1], txt[Len(txt)]))

\* a lower-case c1 after a separator with blanks on both sides, and a name
\* that holds a separator character
C12_Witness ==
    /\ LanguageDone
    /\ HasCodeLast(txt)
    /\ txt[Len(txt) - 1] = "c" /\ txt[Len(txt)] = "1"
    /\ txt[Len(txt) - 2] = " " /\ txt[Len(txt) - 4] = " "
    /\ \E i \in 1..Len(NameBeforeLastCode(txt)) : IsSeparator(NameBeforeLastCode(txt)[i])
    /\ ret = LanguageLine(NameBeforeLastCode(txt), <<"Sehr gute Kenntnisse">>)

-----------------------------------------------------------------------------
(* C13 *)

\* C13 as stated: a text that does not match is returned unchanged,
\* character for character.
C13_NoMatchUnchanged ==
    (LanguageDone /\ SepsWithCode(Trimmed(txt)) = {}) => ret = txt

\* C13 amended: a text that does not match is returned with its leading and
\* trailing whitespace removed and otherwise unchanged, character for
\* character.
C13_NoMatchStripped ==
    (LanguageDone /\ SepsWithCode(Trimmed(txt)) = {}) => ret = Trimmed(txt)

\* a text with blanks around it and a code-like ending that is no CEFR code
C13_Witness ==
    /\ LanguageDone
    /\ SepsWithCode(Trimmed(txt)) = {}
    /\ txt # Trimmed(txt)
    /\ \E i \in 1..Len(txt) : IsSeparator(txt[i])
    /\ ret = Trimmed(txt)

-----------------------------------------------------------------------------
(* C14 *)

\* C14 as stated: the text is rewritten only when the CEFR code is its final
\* token, with the whole prefix before that code's separator as the name; a
\* text with more text after a CEFR code passes through.
C14_AnchoredAtEnd ==
    LanguageDone =>
        LET t == Trimmed(txt) IN
        IF HasCodeLast(t)
        THEN ret = LanguageLine(NameBeforeLastCode(t),
                                CefrLabel(t[Len(t) - 1], t[Len(t)]))
        ELSE ret = t

\* C14 amended: the match is anchored at the start of the stripped text, not
\* at its end: the text is rewritten exactly when some separator, not its
\* first character, is followed (after optional blanks) by a CEFR code that
\* ends at a word boundary; the language name is the trimmed text before the
\* first such separator, the label is that of the code after it, and
\* whatever follows that code is dropped; every other text passes through,
\* a text with a line break inside the would-be language name among them.
C14_AnchoredAtStart ==
    LanguageDone =>
        LET t  == Trimmed(txt)
            ps == SepsWithCode(t)
        IN  IF ps = {} THEN ret = t ELSE ret = RewrittenAt(t, Min(ps))

\* a text rewritten although more text follows its code
C14_Witness ==
    /\ LanguageDone
    /\ LET t == Trimmed(txt) IN
         /\ SepsWithCode(t) # {}
         /\ FirstInkAfter(t, Min(SepsWithCode(t))) + 1 < Len(t)
         /\ ret = RewrittenAt(t, Min(SepsWithCode(t)))

-----------------------------------------------------------------------------
(* C15, C16 *)

SocialDone == fn = "extract_social_handle" /\ pc = "done"

\* v is a bare handle: not empty, no '/', no space, no ':'
BareHandle(v) ==
    /\ v # <<>>
    /\ \A i \in 1..Len(v) : v[i] \notin {"/", " ", ":", "https://", "http://"}

\* v without its scheme, if it has one
SchemeLess(v) ==
    IF v # <<>> /\ v[1] \in {"https://", "http://"} THEN Tail(v) ELSE v

\* the end of the authority of v: the first '/', '?' or '#' after the scheme
AuthorityEnd(v) ==
    Min({Len(SchemeLess(v)) + 1}
            \cup {i \in 1..Len(SchemeLess(v)) : SchemeLess(v)[i] \in {"/", "?", "#"}})

\* the host of the URL v (port included), in lower case: host names do not
\* distinguish letter case
HostOf(v) ==
    LET h == SubSeq(SchemeLess(v), 1, AuthorityEnd(v) - 1)
    IN  [i \in 1..Len(h) |->
            IF h[i] = "GitHub.com" THEN "github.com" ELSE h[i]]

\* the path of the URL v: from the end of the host to the query or fragment
PathOf(v) ==
    LET r == SubSeq(SchemeLess(v), AuthorityEnd(v), Len(SchemeLess(v)))
    IN  SubSeq(r, 1, Min({Len(r) + 1} \cup {i \in 1..Len(r) : r[i] \in {"?", "#"}}) - 1)

\* the segments of a path; the empty ones, left by repeated slashes, do not count
SegmentsOf(path) == SelectSeq(PiecesOf(path, {"/"}), NonEmpty)

HostContains(v, name) == InSeq(name, HostOf(v))

\* https://github.com/<handle>
GitHubProfile(handle) == <<"https://", "github.com", "/">> \o handle

\* C15: with key GitHub a bare handle yields (handle, https://github.com/
\* <handle>); a value that is not a bare handle but a URL, with or without
\* scheme, whose host contains github.com and whose path has a segment yields
\* (first segment, https://github.com/<first segment>); every other value
\* yields no match.  The value is taken without its surrounding whitespace.
C15_GitHubHandle ==
    (SocialDone /\ key = <<"GitHub">>) =>
        LET v == Trimmed(txt) IN
            IF BareHandle(v) THEN ret = <<v, GitHubProfile(v)>>
            ELSE IF HostContains(v, "github.com") /\ SegmentsOf(PathOf(v)) # <<>>
            THEN ret = <<SegmentsOf(PathOf(v))[1], GitHubProfile(SegmentsOf(PathOf(v))[1])>>
            ELSE ret = None

\* a URL without scheme, on a host that only contains github.com, with two
\* path segments: the first one is the handle
C15_Witness ==
    /\ SocialDone /\ key = <<"GitHub">>
    /\ LET v == Trimmed(txt) IN
         /\ SchemeLess(v) = v
         /\ HostOf(v) # <<"github.com">>
         /\ Len(SegmentsOf(PathOf(v))) >= 2
         /\ SegmentsOf(PathOf(v))[1] # SegmentsOf(PathOf(v))[2]
         /\ ret = <<SegmentsOf(PathOf(v))[1], GitHubProfile(SegmentsOf(PathOf(v))[1])>>

\* the canonical LinkedIn URL of a handle under the configuration
CanonicalLinkedIn(handle) ==
    CASE USE_LINKEDIN_REDIRECT -> <<"https://", "tamer.dev", "/", "in">>
      [] ~USE_LINKEDIN_REDIRECT /\ USE_MOBILE_LINKEDIN ->
            <<"https://", "m.", "linkedin.com", "/", "in", "/">> \o handle
                \o <<"/", "?trk=public_profile">>
      [] OTHER ->
            <<"https://", "www.", "linkedin.com", "/", "in", "/">> \o handle
                \o <<"/", "?trk=public_profile">>

\* the path starts with /in/<handle>, as written
StartsWithInHandle(path) ==
    StartsWith(path, <<"/", "in", "/">>) /\ Len(path) >= 4 /\ path[4] # "/"

\* the first segment of the path is "in" in any letter case, and a second follows
FirstSegmentIsIn(path) ==
    /\ Len(SegmentsOf(path)) >= 2
    /\ SegmentsOf(path)[1] \in {<<"in">>, <<"IN">>}

\* C16: with key LinkedIn a bare handle yields (handle, canonical URL); a URL
\* yields (handle, canonical URL) only if its host contains linkedin.com and
\* its path starts with /in/<handle>, and no match otherwise; the canonical
\* URL is the redirect URL if the redirect flag is set, else the m. form if
\* the mobile flag is set, else the www. form.
C16_LinkedInPathStartsWithIn ==
    (SocialDone /\ key = <<"LinkedIn">>) =>
        LET v == Trimmed(txt) IN
            IF BareHandle(v) THEN ret = <<v, CanonicalLinkedIn(v)>>
            ELSE IF HostContains(v, "linkedin.com") /\ StartsWithInHandle(PathOf(v))
            THEN ret = <<SegmentsOf(PathOf(v))[2], CanonicalLinkedIn(SegmentsOf(PathOf(v))[2])>>
            ELSE ret = None

\* C16 amended: as C16, but the path condition is that the first path
\* segment is "in" in any letter case and a second segment follows, which is
\* the handle; empty segments left by repeated slashes are skipped.
C16_LinkedInFirstSegmentIn ==
    (SocialDone /\ key = <<"LinkedIn">>) =>
        LET v == Trimmed(txt) IN
            IF BareHandle(v) THEN ret = <<v, CanonicalLinkedIn(v)>>
            ELSE IF HostContains(v, "linkedin.com") /\ FirstSegmentIsIn(PathOf(v))
            THEN ret = <<SegmentsOf(PathOf(v))[2], CanonicalLinkedIn(SegmentsOf(PathOf(v))[2])>>
            ELSE ret = None

\* a LinkedIn URL under /IN/ matched while both flags are set: the redirect
\* URL wins
C16_Witness ==
    /\ SocialDone /\ key = <<"LinkedIn">>
    /\ USE_LINKEDIN_REDIRECT /\ USE_MOBILE_LINKEDIN
    /\ LET v == Trimmed(txt) IN
         /\ ~BareHandle(v)
         /\ Len(SegmentsOf(PathOf(v))) >= 2
         /\ SegmentsOf(PathOf(v))[1] = <<"IN">>
         /\ ret = <<SegmentsOf(PathOf(v))[2], <<"https://", "tamer.dev", "/", "in">>>>

-----------------------------------------------------------------------------
(* C17 *)

\* x is a Python str
IsText(x) == x # None /\ \A i \in 1..Len(x) : x[i] \in STRING

\* the value returned has the shape its function declares
ResultShape ==
    CASE fn = "parse_csv_or_lines" ->
            \A i \in 1..Len(parts) : IsText(parts[i])
      [] fn = "parse_projects_blocks" ->
            \A i \in 1..Len(blocks) :
                /\ Len(blocks[i]) = 3
                /\ IsText(blocks[i][1]) /\ IsText(blocks[i][2])
                /\ (blocks[i][3] = None \/ IsText(blocks[i][3]))
      [] fn = "parse_sections_text" ->
            \A i \in 1..Len(sections) :
                /\ DOMAIN sections[i] = {"title", "lines"}
                /\ IsText(sections[i].title)
                /\ \A j \in 1..Len(sections[i].lines) : IsText(sections[i].lines[j])
      [] fn = "parse_education_blocks" ->
            \A i \in 1..Len(blocks) : IsText(blocks[i])
      [] fn = "normalize_language_level" -> IsText(ret)

\* C17: no parser rejects free text: on every text each of the five parsers
\* terminates and returns a value of its result shape
C17_ParsersReturn == <>(pc = "done" /\ ResultShape)

\* bullets without a title, parsed to the end: nothing is returned for them
C17_Witness ==
    /\ fn = "parse_sections_text" /\ pc = "done"
    /\ txt # <<>> /\ Head(txt) = "-" /\ Len(txt) >= 2
    /\ sections = <<>>

-----------------------------------------------------------------------------
(* C18 *)

\* what was drawn of the rest of the document
RestDrawn == SelectSeq(drawn, LAMBDA d : InSeq(d.what, RestOfDocument))

\* the first k parts of the rest of the document as drawn when no photo is
\* supplied: from the top of the card down, under the graphics state of a
\* new canvas
RestWithoutPhoto(k) ==
    [i \in 1..k |-> [what |-> RestOfDocument[i],
                     y    |-> 275 - 10 * (i - 1),
                     gs   |-> [clip |-> "page", stroke |-> "black", width |-> "default"]]]

\* C18: when a step of the photo block fails, the failure is swallowed, the
\* cursor keeps the value it had before the block, and the rest of the
\* document is produced exactly as it is when no photo is supplied.
C18_PhotoFailureSwallowed ==
    (fn = "build_resume_pdf" /\ pc \in {"rest", "done"} /\ exc # None) =>
        /\ cursor = 275 - 10 * Len(RestDrawn)
        /\ RestDrawn = RestWithoutPhoto(Len(RestDrawn))

-----------------------------------------------------------------------------
(* C19 *)

\* the objects a request can reach from its local variables
Reachable(r) ==
    LET held == {reqs[r].parts, reqs[r].buffer, reqs[r].canvas} \ {0}
    IN  held \cup ({heap[o].ref : o \in held} \ {0})

\* C19: requests are isolated: in every interleaving of two /generate-form
\* requests each request parses into a list of its own and renders into a
\* buffer and a canvas of its own, no such object is reachable from both
\* requests, and each returned document depends on that request's input only.
C19_RequestsIsolated ==
    /\ \A r1, r2 \in Requests : r1 # r2 => Reachable(r1) \cap Reachable(r2) = {}
    /\ \A r \in Requests :
          /\ Cardinality({reqs[r].parts, reqs[r].buffer, reqs[r].canvas} \ {0})
                = Cardinality({f \in {"parts", "buffer", "canvas"} : reqs[r][f] # 0})
          /\ reqs[r].pc = "done" =>
                reqs[r].resp = TrimmedNonEmptyPieces(reqs[r].skills_text, {",", "\n", "\r"})

\* both requests answered, with different documents, the objects of the one
\* constructed in between the objects of the other
C19_Witness ==
    /\ reqs["request 1"].pc = "done" /\ reqs["request 2"].pc = "done"
    /\ reqs["request 1"].resp # reqs["request 2"].resp
    /\ reqs["request 1"].resp # <<>> /\ reqs["request 2"].resp # <<>>
    /\ reqs["request 1"].parts < reqs["request 2"].parts
    /\ reqs["request 2"].parts < reqs["request 1"].buffer
    /\ reqs["request 1"].canvas < reqs["request 2"].canvas

-----------------------------------------------------------------------------
(* C21 *)

\* C21: every line item of every section returned by parse_sections_text is
\* a non-empty string with no whitespace at either end: a bare bullet marker
\* creates no item, and no section exists on the strength of empty items.
C21_ItemsNonEmptyTrimmed ==
    SectionsDone =>
        \A i \in 1..Len(sections) :
            /\ \A j \in 1..Len(sections[i].lines) :
                  /\ sections[i].lines[j] # <<>>
                  /\ Trimmed(sections[i].lines[j]) = sections[i].lines[j]
            /\ \E j \in 1..Len(sections[i].lines) : sections[i].lines[j] # <<>>

-----------------------------------------------------------------------------
(* C24 *)

\* C24: the graphics state is balanced around the photo block on every path:
\* when control has left the block every saveState has had its restoreState,
\* also when a step in between raised, and the circular clipping path is not
\* active for anything drawn after the block.
C24_GraphicsStateBalanced ==
    (fn = "build_resume_pdf" /\ pc \in {"rest", "done"}) =>
        /\ stateStack = <<>>
        /\ gs.clip = "page"
        /\ \A i \in 1..Len(drawn) :
              InSeq(drawn[i].what, RestOfDocument) => drawn[i].gs.clip = "page"

-----------------------------------------------------------------------------
(* C22, C23 *)

\* what the target path holds: None if there is no such file
TargetContent == IF fsDir["path"] = 0 THEN None ELSE fsInodes[fsDir["path"]]

\* only one call of persist_json_atomic takes place
SingleSave == saves["session 2"].pc = "off"

\* C22: persist_json_atomic is crash-atomic: wherever the process stops
\* during a call, the target holds its complete previous content or the
\* complete new document, never a partial or empty file: no step changes
\* the target other than to the complete new document.
C22_CrashAtomic ==
    /\ [][SingleSave =>
            \/ TargetContent' = TargetContent
            \/ TargetContent' = saves["session 1"].data]_vars
    /\ [](SingleSave =>
            TargetContent \in {None, <<"old">>, saves["session 1"].data})

\* the process stopped while the temporary file held a part of the new
\* document: the target still holds the old one
C22_Witness ==
    /\ SingleSave /\ saves["session 1"].pc = "stopped"
    /\ fsDir["tmp"] # 0
    /\ fsInodes[fsDir["tmp"]] # <<>>
    /\ fsInodes[fsDir["tmp"]] # saves["session 1"].data
    /\ TargetContent = <<"old">>

\* C23: in every interleaving of two concurrent calls on the same target
\* both calls return without error and the target afterwards holds the
\* complete document of one of the two calls.
C23_ConcurrentSaves ==
    (fn = "persist_json_atomic"
        /\ \A u \in Sessions : saves[u].pc \in {"done", "failed"}) =>
        /\ \A u \in Sessions : saves[u].pc = "done"
        /\ \E u \in Sessions : TargetContent = saves[u].data

-----------------------------------------------------------------------------
(* C25 *)

\* C25: in the Generate action, when the request fails (connection error,
\* timeout or non-2xx status) pdf_bytes and pdf_filename keep their values
\* and no file is written to the outputs directory; the session's PDF is
\* replaced only by the body of a successful (2xx) response, and the
\* success message is shown only if that PDF was stored in the session and
\* written to disk.
C25_FailedRequestKeepsPdf ==
    /\ [][fn = "generate" =>
            /\ (pc = "store" /\ pc' = "write") =>
                  /\ resp[1] >= 200 /\ resp[1] < 300
                  /\ pdf_bytes' = resp[2]
            /\ (pc # "store") =>
                  pdf_bytes' = pdf_bytes /\ pdf_filename' = pdf_filename
            /\ (pc # "write") => outputs' = outputs]_vars
    /\ []((fn = "generate" /\ sidebar = <<"success">>) =>
            /\ pdf_bytes = resp[2]
            /\ outputs # <<>> /\ outputs[Len(outputs)] = resp[2])

====
